---------------------------- MODULE Spec2Model ----------------------------
(***************************************************************************)
(* A model of the harmonization engine of the ace package: the schema      *)
(* enforcer, the entity preparers, the two integrators, the two            *)
(* post-processors and the output normalizer, as the functions of          *)
(* src/ace/utils/_use_case_utils.py and src/ace/utils/_business_utils.py   *)
(* compute them on Spark DataFrames.                                       *)
(*                                                                         *)
(* A DataFrame is a record [cols, types, rows]: cols the column names in   *)
(* order (Spark allows a name twice), types the column types in the same   *)
(* order, rows a bag of rows (a function from row to its multiplicity;     *)
(* Spark DataFrames are unordered), each row a tuple of cells aligned with *)
(* cols.  A cell is NULL (the empty tuple) or <<v>>, where v is a string   *)
(* for a string column and an integer for a numeric, date or timestamp     *)
(* column (dates and timestamps are day numbers, see DateStr).             *)
(***************************************************************************)
EXTENDS Integers, Sequences, FiniteSets, TLC

VARIABLES
    pc,        \* the last step the running function has completed
    globals,   \* the module-level names the run has bound: entity name -> DataFrame
    locals,    \* the local variables of the running function: name -> value
    output_dir \* the directory the runs write to: whether temp_output
               \* exists in it, and its .csv files (name -> content)

vars == <<pc, globals, locals, output_dir>>

---------------------------------------------------------------------------
(* Bounds of the model *)

\* most rows of a base input dataset (plant-material, order header)
MaxRows == 2

---------------------------------------------------------------------------
(* Values *)

NULL == <<>>

V(x) == <<x>>

IsNull(c) == c = NULL

\* The calendar of the model: day numbers 0..LastDay are the days from
\* 2024-01-01 on; they span a month end so that date strings differ in
\* more than their last characters.
LastDay == 44

Days == 0..LastDay

TwoDigits(n) == IF n < 10 THEN "0" \o ToString(n) ELSE ToString(n)

\* The year, month and day of the month of day number d.
DateFields(d) == IF d <= 30 THEN <<2024, 1, d + 1>> ELSE <<2024, 2, d - 30>>

\* date_format(d, "yyyy-MM-dd") of day number d.
DateStr(d) ==
    ToString(DateFields(d)[1]) \o "-" \o TwoDigits(DateFields(d)[2])
                               \o "-" \o TwoDigits(DateFields(d)[3])

\* The integers a numeric string of the model can denote.
Nums == -LastDay..LastDay

\* Cast of a string to a date: the day number of a well-formed
\* yyyy-MM-dd string, NULL for any other string.
ParseDate(s) ==
    IF \E d \in Days : DateStr(d) = s
        THEN V(CHOOSE d \in Days : DateStr(d) = s)
        ELSE NULL

\* Cast of a string to a number: NULL when the string is no number.
ParseNum(s) ==
    IF \E n \in Nums : ToString(n) = s
        THEN V(CHOOSE n \in Nums : ToString(n) = s)
        ELSE NULL

NumericTypes == {"integer", "long", "double"}

\* Column.cast(dataType): the value of cell c of type from as type to.
\* A value that does not convert becomes NULL (Spark's non-ANSI cast).
Cast(c, from, to) ==
    IF IsNull(c) \/ from = "void" THEN NULL
    ELSE IF from = to THEN c
    ELSE IF from = "string" /\ to \in NumericTypes THEN ParseNum(c[1])
    ELSE IF from = "string" /\ to \in {"date", "timestamp"} THEN ParseDate(c[1])
    ELSE IF from \in NumericTypes /\ to \in NumericTypes THEN c
    ELSE IF from \in {"integer", "long"} /\ to = "string" THEN V(ToString(c[1]))
    ELSE IF from = "double" /\ to = "string" THEN V(ToString(c[1]) \o ".0")
    ELSE IF from \in {"date", "timestamp"} /\ to = "string" THEN V(DateStr(c[1]))
    ELSE IF from \in {"date", "timestamp"} /\ to \in {"date", "timestamp"} THEN c
    ELSE NULL

---------------------------------------------------------------------------
(* Sequences and bags *)

Range(s) == {s[i] : i \in DOMAIN s}

RECURSIVE SumOver(_, _)
\* The sum of f[x] over the elements x of the finite set S.
SumOver(S, f) ==
    IF S = {} THEN 0
    ELSE LET x == CHOOSE y \in S : TRUE
         IN  f[x] + SumOver(S \ {x}, f)

EmptyRows == [r \in {} |-> 0]

\* Number of rows of a bag of rows, with multiplicity.
CountRows(rows) == SumOver(DOMAIN rows, rows)

\* The bag of the images F[r] of the rows of a bag.
MapRows(rows, F) ==
    [q \in {F[r] : r \in DOMAIN rows} |->
        SumOver({r \in DOMAIN rows : F[r] = q}, rows)]

\* The rows of a bag that satisfy the predicate P (a Boolean function).
FilterRows(rows, P) ==
    [r \in {q \in DOMAIN rows : P[q]} |-> rows[r]]

\* All bags of at most n rows drawn from the finite set R.
RECURSIVE BagsUpTo(_, _)
BagsUpTo(R, n) ==
    IF n = 0 THEN {EmptyRows}
    ELSE LET smaller == BagsUpTo(R, n - 1)
         IN  smaller \cup
             {[q \in DOMAIN b \cup {r} |->
                  IF q \in DOMAIN b
                      THEN b[q] + (IF q = r THEN 1 ELSE 0)
                      ELSE 1] : b \in smaller, r \in R}

---------------------------------------------------------------------------
(* DataFrames *)

DataFrame(cols, types, rows) == [cols |-> cols, types |-> types, rows |-> rows]

Field(n, t) == [name |-> n, type |-> t]

\* str.lower() and Spark's resolution of a column reference without regard
\* to case, on the names of the model that have upper-case letters and are
\* compared in lower case: the reference df["GLOBAL_MATERIAL_NUMBER"] and
\* the file format "CSV".
Lower(n) ==
    CASE n = "GLOBAL_MATERIAL_NUMBER" -> "global_material_number"
      [] n = "CSV" -> "csv"
      [] OTHER -> n

\* The positions of the columns a reference to name resolves to.
Resolve(d, name) == {i \in DOMAIN d.cols : Lower(d.cols[i]) = Lower(name)}

\* F.col(name) resolves: there is exactly one such column.  A reference to
\* no column or to several raises AnalysisException.
Resolves(d, name) == Cardinality(Resolve(d, name)) = 1

ColIndex(d, name) == CHOOSE i \in Resolve(d, name) : TRUE

ColType(d, name) == d.types[ColIndex(d, name)]

\* The cell of row r of d in column name.
Cell(d, r, name) == r[ColIndex(d, name)]

\* name in df.columns: Python compares the names exactly.
InColumns(d, name) == name \in Range(d.cols)

NumRows(d) == CountRows(d.rows)

RECURSIVE Without(_, _)
\* The sequence s without the elements that are in the set S.
Without(s, S) ==
    IF s = <<>> THEN <<>>
    ELSE IF Head(s) \in S THEN Without(Tail(s), S)
    ELSE <<Head(s)>> \o Without(Tail(s), S)

\* df.filter(condition): the rows on which the condition is true (P maps
\* each row to TRUE exactly when the condition evaluates to true, not to
\* false or null).
Filter(d, P) == DataFrame(d.cols, d.types, FilterRows(d.rows, P))

\* df.withColumnRenamed(old, new): every column named old is renamed; no
\* column of that name, no change.
WithColumnRenamed(d, old, new) ==
    DataFrame([i \in DOMAIN d.cols |->
                  IF Lower(d.cols[i]) = Lower(old) THEN new ELSE d.cols[i]],
              d.types, d.rows)

\* df.withColumn(name, expr): expr (F maps each row to its cell, of type
\* type) replaces the columns of that name, or is appended as a new last
\* column.
WithColumn(d, name, type, F) ==
    IF Resolve(d, name) # {}
        THEN DataFrame(d.cols,
                       [i \in DOMAIN d.types |->
                           IF i \in Resolve(d, name) THEN type ELSE d.types[i]],
                       MapRows(d.rows,
                           [r \in DOMAIN d.rows |->
                               [i \in DOMAIN d.cols |->
                                   IF i \in Resolve(d, name) THEN F[r] ELSE r[i]]]))
        ELSE DataFrame(Append(d.cols, name), Append(d.types, type),
                       MapRows(d.rows, [r \in DOMAIN d.rows |-> Append(r, F[r])]))

\* df.dropDuplicates(): one copy of every distinct row.
DropDuplicates(d) ==
    DataFrame(d.cols, d.types, [r \in DOMAIN d.rows |-> 1])

\* The cells of row r in the columns names, in that order.
KeyOf(d, r, names) == [k \in DOMAIN names |-> Cell(d, r, names[k])]

\* A dropDuplicates(subset) that keeps one copy of every distinct row, as
\* dropDuplicates() without a subset does.
DropDuplicatesOnAllColumns(d, subset) == {DropDuplicates(d)}

\* df.dropDuplicates(subset): one row of every group of rows that agree on
\* the subset columns (null agrees with null).  Spark does not say which
\* row of a group is kept: these are all the results it can give.
DropDuplicatesOn(d, subset) ==
    LET groups == {KeyOf(d, r, subset) : r \in DOMAIN d.rows}
    IN  {DataFrame(d.cols, d.types, [r \in S |-> 1]) :
            S \in {T \in SUBSET DOMAIN d.rows :
                     \A g \in groups :
                        Cardinality({r \in T : KeyOf(d, r, subset) = g}) = 1}}

\* A count over the whole dataset instead of over the rows of the group.
CountAll(d, names) ==
    [r \in DOMAIN d.rows |-> V(SumOver(DOMAIN d.rows, d.rows))]

\* F.count("*").over(Window.partitionBy(names)): for each row the number
\* of rows of d that agree with it on names.
CountOver(d, names) ==
    [r \in DOMAIN d.rows |->
        V(SumOver({q \in DOMAIN d.rows : KeyOf(d, q, names) = KeyOf(d, r, names)},
                  d.rows))]

\* a comes no later than b in ORDER BY col DESC (nulls last; ties in any
\* order).
DescNoLater(a, b) == IsNull(b) \/ (~IsNull(a) /\ a[1] >= b[1])

\* A row_number() over a window without an order: of every group, any one
\* row, with row_num 1.
FirstOfGroup(d, names, col) ==
    LET groups == {KeyOf(d, r, names) : r \in DOMAIN d.rows}
    IN  {DataFrame(Append(d.cols, "row_num"), Append(d.types, "integer"),
                   [r \in {Append(q, V(1)) : q \in S} |-> 1]) :
            S \in {T \in SUBSET DOMAIN d.rows :
                     \A g \in groups :
                        Cardinality({r \in T : KeyOf(d, r, names) = g}) = 1}}

\* withColumn("row_num", row_number().over(partitionBy(names)
\* .orderBy(desc(col)))).filter(row_num == 1): of every group, one row
\* that no row of the group precedes in the order, once, with row_num 1.
\* Rows that tie for the first place may get the number 1 in any order:
\* these are all the results.
FirstByDesc(d, names, col) ==
    LET groups == {KeyOf(d, r, names) : r \in DOMAIN d.rows}
        first(r) == \A q \in DOMAIN d.rows :
                        KeyOf(d, q, names) = KeyOf(d, r, names)
                            => DescNoLater(Cell(d, r, col), Cell(d, q, col))
    IN  {DataFrame(Append(d.cols, "row_num"), Append(d.types, "integer"),
                   [r \in {Append(q, V(1)) : q \in S} |-> 1]) :
            S \in {T \in SUBSET {r \in DOMAIN d.rows : first(r)} :
                     \A g \in groups :
                        Cardinality({r \in T : KeyOf(d, r, names) = g}) = 1}}

\* a.join(b, on, "inner"): as the left join below, without the rows of a
\* that pair with no row of b.
InnerJoin(a, b, on) ==
    LET onSet  == Range(on)
        aRest  == Without(a.cols, onSet)
        bRest  == Without(b.cols, onSet)
        match(l, r) == \A k \in DOMAIN on :
                          /\ ~IsNull(Cell(a, l, on[k]))
                          /\ Cell(a, l, on[k]) = Cell(b, r, on[k])
        left(l)   == [k \in DOMAIN on |-> Cell(a, l, on[k])]
                       \o [k \in DOMAIN aRest |-> Cell(a, l, aRest[k])]
        right(r)  == [k \in DOMAIN bRest |-> Cell(b, r, bRest[k])]
        pairs     == {p \in (DOMAIN a.rows) \X (DOMAIN b.rows) : match(p[1], p[2])}
        out       == {left(p[1]) \o right(p[2]) : p \in pairs}
    IN  DataFrame(on \o aRest \o bRest,
                  [k \in DOMAIN on |-> ColType(a, on[k])]
                    \o [k \in DOMAIN aRest |-> ColType(a, aRest[k])]
                    \o [k \in DOMAIN bRest |-> ColType(b, bRest[k])],
                  [q \in out |->
                      SumOver({p \in pairs : left(p[1]) \o right(p[2]) = q},
                              [p \in pairs |-> a.rows[p[1]] * b.rows[p[2]]])])

\* a.join(b, on, "left"): the columns are the on columns (from a), a's
\* other columns, then b's other columns.  A row of a pairs with every row
\* of b equal to it on all on columns (null equals nothing); a row of a
\* with no such row of b appears once, with nulls in b's columns.
LeftJoin(a, b, on) ==
    LET onSet  == Range(on)
        aRest  == Without(a.cols, onSet)
        bRest  == Without(b.cols, onSet)
        match(l, r) == \A k \in DOMAIN on :
                          /\ ~IsNull(Cell(a, l, on[k]))
                          /\ Cell(a, l, on[k]) = Cell(b, r, on[k])
        left(l)   == [k \in DOMAIN on |-> Cell(a, l, on[k])]
                       \o [k \in DOMAIN aRest |-> Cell(a, l, aRest[k])]
        right(r)  == [k \in DOMAIN bRest |-> Cell(b, r, bRest[k])]
        nulls     == [k \in DOMAIN bRest |-> NULL]
        pairs     == {p \in (DOMAIN a.rows) \X (DOMAIN b.rows) : match(p[1], p[2])}
        alone     == {l \in DOMAIN a.rows :
                         \A r \in DOMAIN b.rows : ~match(l, r)}
        out       == {left(p[1]) \o right(p[2]) : p \in pairs}
                       \cup {left(l) \o nulls : l \in alone}
    IN  DataFrame(on \o aRest \o bRest,
                  [k \in DOMAIN on |-> ColType(a, on[k])]
                    \o [k \in DOMAIN aRest |-> ColType(a, aRest[k])]
                    \o [k \in DOMAIN bRest |-> ColType(b, bRest[k])],
                  [q \in out |->
                      SumOver({p \in pairs : left(p[1]) \o right(p[2]) = q},
                              [p \in pairs |-> a.rows[p[1]] * b.rows[p[2]]])
                      + SumOver({l \in alone : left(l) \o nulls = q}, a.rows)])

\* F.concat_ws(sep, c1, ..., cn) of string cells: the non-null cells joined
\* by sep; null cells are skipped, and the result is never null.
RECURSIVE ConcatWs(_, _)
ConcatWs(sep, cells) ==
    IF cells = <<>> THEN ""
    ELSE LET rest == ConcatWs(sep, Tail(cells))
             more == \E i \in 2..Len(cells) : ~IsNull(cells[i])
         IN  IF IsNull(Head(cells)) THEN rest
             ELSE IF more THEN Head(cells)[1] \o sep \o rest
             ELSE Head(cells)[1]

\* The second argument when it is not null, else the first.
CoalesceLast(a, b) == IF IsNull(b) THEN a ELSE b

\* F.coalesce(a, b): the first cell that is not null.
Coalesce(a, b) == IF IsNull(a) THEN b ELSE a

---------------------------------------------------------------------------
(* Schema catalog *)

MARA_SCHEMA == <<
    Field("MANDT", "string"), Field("MATNR", "string"),
    Field("MEINS", "string"), Field("global_material_number", "string") >>

MBEW_SCHEMA == <<
    Field("MANDT", "string"), Field("MATNR", "string"),
    Field("BWKEY", "string"), Field("VPRSV", "string"),
    Field("VERPR", "double"), Field("STPRS", "double"),
    Field("PEINH", "double"), Field("BKLAS", "string") >>

MARC_SCHEMA == <<
    Field("SOURCE_SYSTEM_ERP", "string"), Field("MATNR", "string"),
    Field("WERKS", "string"), Field("PLIFZ", "string"),
    Field("DZEIT", "string"), Field("DISLS", "string") >>

PLANT_DATA_SCHEMA == <<
    Field("MANDT", "string"), Field("WERKS", "string"),
    Field("BWKEY", "string"), Field("NAME1", "string") >>

VALUATION_DATA_SCHEMA == <<
    Field("MANDT", "string"), Field("BUKRS", "string"),
    Field("BWKEY", "string") >>

COMPANY_CODE_DATA_SCHEMA == <<
    Field("MANDT", "string"), Field("BUKRS", "string"),
    Field("WAERS", "string") >>

AFKO_SCHEMA == <<
    Field("SOURCE_SYSTEM_ERP", "string"), Field("MANDT", "string"),
    Field("AUFNR", "string"), Field("start_date", "date"),
    Field("finish_date", "date"), Field("GLTRP", "string"),
    Field("GSTRI", "string") >>

AFPO_SCHEMA == <<
    Field("AUFNR", "string"), Field("POSNR", "string"),
    Field("DWERK", "string"), Field("MATNR", "string"),
    Field("KDAUF", "string"), Field("LTRMI", "string") >>

AUFK_SCHEMA == <<
    Field("AUFNR", "string"), Field("OBJNR", "string"),
    Field("ERDAT", "string"), Field("ERNAM", "string"),
    Field("AUART", "string"), Field("ZZGLTRP_ORIG", "string"),
    Field("ZZPRO_TEXT", "string") >>

MARA_ORDER_SCHEMA == <<
    Field("MATNR", "string"), Field("MTART", "string"),
    Field("NTGEW", "string"), Field("global_material_number", "string") >>

UNIFIED_SCHEMA == <<
    Field("material_number", "string"), Field("client", "string"),
    Field("primary_key_intra", "string"), Field("primary_key_inter", "string"),
    Field("company_code", "string"), Field("valuation_area", "string"),
    Field("planned_delivery_time", "string"), Field("decoupling_time", "string"),
    Field("discontinuation_indicator", "string"),
    Field("unit_of_measure", "string"), Field("name_of_plant", "string"),
    Field("price_control_indicator", "string"),
    Field("moving_average_price", "double"), Field("standard_price", "double"),
    Field("unit_price", "double"), Field("valuation_class", "string"),
    Field("currency_key", "string"), Field("mtl_plant_emd", "string"),
    Field("global_mtl_id", "string"), Field("no_of_duplicates", "integer"),
    Field("order_number", "string"), Field("source_system_erp", "string"),
    Field("start_date_source", "string"), Field("start_date", "date"),
    Field("order_start_timestamp_source", "string"),
    Field("order_item_number", "string"), Field("plant", "string"),
    Field("sales_order_number", "string"),
    Field("order_finish_timestamp_source", "string"),
    Field("object_number", "string"), Field("creation_date", "date"),
    Field("created_by", "string"), Field("order_type", "string"),
    Field("original_basic_finish_date", "date"),
    Field("project_text", "string"), Field("material_type", "string"),
    Field("net_weight", "double"), Field("global_material_number", "string"),
    Field("on_time_flag", "string"),
    Field("actual_on_time_deviation", "double"),
    Field("late_delivery_bucket", "string"),
    Field("mto_vs_mts_flag", "string"),
    Field("order_finish_timestamp", "timestamp"),
    Field("order_start_timestamp", "timestamp") >>

\* The rename maps, as the sequences of (old name, new name) a Python dict
\* iterates in.
LOCAL_MATERIAL_SCHEMA_WITH_RELAVENT_NAMES == <<
    <<"MATNR", "material_number">>, <<"SOURCE_SYSTEM_ERP", "source_system_erp">>,
    <<"MANDT", "client">>, <<"BUKRS", "company_code">>,
    <<"BWKEY", "valuation_area">>, <<"WERKS", "plant">>,
    <<"PLIFZ", "planned_delivery_time">>, <<"DZEIT", "decoupling_time">>,
    <<"DISLS", "discontinuation_indicator">>, <<"MEINS", "unit_of_measure">>,
    <<"NAME1", "name_of_plant">>, <<"VPRSV", "price_control_indicator">>,
    <<"VERPR", "moving_average_price">>, <<"STPRS", "standard_price">>,
    <<"PEINH", "unit_price">>, <<"BKLAS", "valuation_class">>,
    <<"WAERS", "currency_key">> >>

PROCESS_ORDER_SCHEMA_WITH_RELAVENT_NAMES == <<
    <<"MATNR", "material_number">>, <<"AUFNR", "order_number">>,
    <<"SOURCE_SYSTEM_ERP", "source_system_erp">>, <<"MANDT", "client">>,
    <<"GLTRP", "start_date_source">>,
    <<"GSTRI", "order_start_timestamp_source">>,
    <<"POSNR", "order_item_number">>, <<"DWERK", "plant">>,
    <<"KDAUF", "sales_order_number">>,
    <<"LTRMI", "order_finish_timestamp_source">>,
    <<"OBJNR", "object_number">>, <<"ERDAT", "creation_date">>,
    <<"ERNAM", "created_by">>, <<"AUART", "order_type">>,
    <<"ZZGLTRP_ORIG", "original_basic_finish_date">>,
    <<"ZZPRO_TEXT", "project_text">>, <<"MTART", "material_type">>,
    <<"NTGEW", "net_weight">> >>

SchemaNames(schema) == [i \in DOMAIN schema |-> schema[i].name]

---------------------------------------------------------------------------
(* Schema enforcer and output normalizer (_use_case_utils.py) *)

RECURSIVE ExistingFields(_, _)
\* The fields of schema whose name is in df.columns, in schema order.
ExistingFields(d, schema) ==
    IF schema = <<>> THEN <<>>
    ELSE IF InColumns(d, Head(schema).name)
        THEN <<Head(schema)>> \o ExistingFields(d, Tail(schema))
        ELSE ExistingFields(d, Tail(schema))

\* df.select(exprs) raises when a selected name is the name of two columns.
enforce_schema_raises(d, schema) ==
    \E i \in DOMAIN ExistingFields(d, schema) :
        ~Resolves(d, ExistingFields(d, schema)[i].name)

\* An enforcer that selects the columns without casting them.
select_schema_columns(d, schema) ==
    LET names == SchemaNames(ExistingFields(d, schema))
    IN  DataFrame(names,
                  [i \in DOMAIN names |-> ColType(d, names[i])],
                  MapRows(d.rows,
                      [r \in DOMAIN d.rows |->
                          [i \in DOMAIN names |-> Cell(d, r, names[i])]]))

\* enforce_schema(df, schema): select, for every schema field whose name is
\* a column of df, that column cast to the field's type.
enforce_schema(d, schema) ==
    LET existing_columns == ExistingFields(d, schema)
    IN  DataFrame(
            [i \in DOMAIN existing_columns |-> existing_columns[i].name],
            [i \in DOMAIN existing_columns |-> existing_columns[i].type],
            MapRows(d.rows,
                [r \in DOMAIN d.rows |->
                    [i \in DOMAIN existing_columns |->
                        Cast(Cell(d, r, existing_columns[i].name),
                             ColType(d, existing_columns[i].name),
                             existing_columns[i].type)]]))

RECURSIVE RenameAll(_, _)
\* for col in mapping: df = df.withColumnRenamed(col, mapping[col])
RenameAll(d, mapping) ==
    IF mapping = <<>> THEN d
    ELSE RenameAll(WithColumnRenamed(d, Head(mapping)[1], Head(mapping)[2]),
                   Tail(mapping))

\* df.select(*names): the named columns, in the order named.
Select(d, names) ==
    DataFrame(names,
              [i \in DOMAIN names |-> ColType(d, names[i])],
              MapRows(d.rows,
                  [r \in DOMAIN d.rows |->
                      [i \in DOMAIN names |-> Cell(d, r, names[i])]]))

\* The rename followed by the selection of the mapped columns the dataset
\* has, whatever select is.
rename_and_select_mapped(d, mapping, select) ==
    LET renamed == RenameAll(d, mapping)
    IN  Select(renamed,
               SelectSeq([i \in DOMAIN mapping |-> mapping[i][2]],
                         LAMBDA n : Cardinality(Resolve(renamed, n)) = 1))

rename_and_select_raises(d, mapping, select) ==
    /\ select
    /\ \E i \in DOMAIN mapping : ~Resolves(RenameAll(d, mapping), mapping[i][2])

\* rename_and_select(df, mapping, select)
rename_and_select(d, mapping, select) ==
    LET renamed == RenameAll(d, mapping)
    IN  IF select
            THEN Select(renamed, [i \in DOMAIN mapping |-> mapping[i][2]])
            ELSE renamed

RECURSIVE AddColumns(_, _)
\* for missing_col in missing_columns:
\*     df = df.withColumn(missing_col.name, F.lit(None).cast("string"))
AddColumns(d, missing_columns) ==
    IF missing_columns = <<>> THEN d
    ELSE AddColumns(
             WithColumn(d, Head(missing_columns).name, "string",
                        [r \in DOMAIN d.rows |-> NULL]),
             Tail(missing_columns))

RECURSIVE MissingFields(_, _)
\* [col for col in schema if col.name not in existing_columns]
MissingFields(d, schema) ==
    IF schema = <<>> THEN <<>>
    ELSE IF InColumns(d, Head(schema).name)
        THEN MissingFields(d, Tail(schema))
        ELSE <<Head(schema)>> \o MissingFields(d, Tail(schema))

\* add_missing_columns(df, schema)
add_missing_columns(d, schema) == AddColumns(d, MissingFields(d, schema))

---------------------------------------------------------------------------
(* Entity preparers (_business_utils.py) *)

\* Of the invalid old material numbers, the archived one alone.
OldMaterialNumbersArchived == {"ARCHIVE"}

OldMaterialNumbersInvalid == {"ARCHIVE", "DUPLICATE", "RENUMBERED"}

\* prep_general_material_data(df, col_mara_global_material_number,
\*     check_old_material_number_is_valid, check_material_is_not_deleted)
prep_general_material_data(d, col_mara_global_material_number, check_old_material_number_is_valid, check_material_is_not_deleted) ==
    LET d1 == IF check_old_material_number_is_valid
                  THEN Filter(d, [r \in DOMAIN d.rows |->
                           \/ IsNull(Cell(d, r, "BISMT"))
                           \/ Cell(d, r, "BISMT")[1] \notin OldMaterialNumbersInvalid])
                  ELSE d
        d2 == IF check_material_is_not_deleted
                  THEN Filter(d1, [r \in DOMAIN d1.rows |->
                           \/ IsNull(Cell(d1, r, "LVORM"))
                           \/ Cell(d1, r, "LVORM") = V("")])
                  ELSE d1
        d3 == WithColumnRenamed(d2, col_mara_global_material_number,
                                "global_material_number")
    IN  enforce_schema(d3, MARA_SCHEMA)

\* prep_material_valuation(df): all the results the function can give (the
\* row numbered 1 among rows that tie on LAEPR is Spark's choice).
prep_material_valuation(d) ==
    LET d1 == Filter(d, [r \in DOMAIN d.rows |-> IsNull(Cell(d, r, "LVORM"))])
        d2 == Filter(d1, [r \in DOMAIN d1.rows |-> IsNull(Cell(d1, r, "BWTAR"))])
    IN  {DropDuplicates(enforce_schema(d3, MBEW_SCHEMA)) :
            d3 \in FirstByDesc(d2, <<"MATNR", "BWKEY">>, "LAEPR")}

\* prep_plant_data_for_material(df, check_deletion_flag_is_null,
\*     drop_duplicate_records)
prep_plant_data_for_material(d, check_deletion_flag_is_null, drop_duplicate_records) ==
    LET d1 == IF check_deletion_flag_is_null
                  THEN Filter(d, [r \in DOMAIN d.rows |->
                                     IsNull(Cell(d, r, "LVORM"))])
                  ELSE d
        d2 == enforce_schema(d1, MARC_SCHEMA)
    IN  IF drop_duplicate_records THEN DropDuplicates(d2) ELSE d2

\* prep_plant_and_branches(df)
prep_plant_and_branches(d) == enforce_schema(d, PLANT_DATA_SCHEMA)

\* prep_valuation_area(df)
prep_valuation_area(d) == DropDuplicates(enforce_schema(d, VALUATION_DATA_SCHEMA))

\* prep_company_codes(df)
prep_company_codes(d) == enforce_schema(d, COMPANY_CODE_DATA_SCHEMA)

\* dataframe_with_enforced_schema(df, schema)
dataframe_with_enforced_schema(d, schema) == enforce_schema(d, schema)

\* The year and month of the first day of the calendar, whatever the day.
FirstMonthStr(d) == "2024-01"

\* date_format(d, "yyyy-MM") of day number d.
MonthStr(d) ==
    ToString(DateFields(d)[1]) \o "-" \o TwoDigits(DateFields(d)[2])

\* prep_order_header_data(df), run on the day current_date.  GSTRP is a
\* date column; a string that is no date formats to null, and
\* concat_ws("-", null, "01") is "01".
prep_order_header_data(d, current_date) ==
    LET gstrp(r) == Cast(Cell(d, r, "GSTRP"), ColType(d, "GSTRP"), "date")
        d1 == WithColumn(d, "start_date", "string",
                  [r \in DOMAIN d.rows |->
                      IF IsNull(Cell(d, r, "GSTRP"))
                          THEN V(MonthStr(current_date))
                          ELSE IF IsNull(gstrp(r)) THEN NULL
                               ELSE V(MonthStr(gstrp(r)[1]))])
        d2 == WithColumn(d1, "start_date", "string",
                  [r \in DOMAIN d1.rows |->
                      V(ConcatWs("-", <<Cell(d1, r, "start_date"), V("01")>>))])
    IN  enforce_schema(d2, AFKO_SCHEMA)

---------------------------------------------------------------------------
(* Integrators (_business_utils.py) *)

\* integrate_data(sap_marc, sap_mara, sap_mbew, sap_t001w, sap_t001k, sap_t001)
integrate_data(sap_marc, sap_mara, sap_mbew, sap_t001w, sap_t001k, sap_t001) ==
    LET j1 == LeftJoin(sap_marc, sap_mara, <<"MATNR">>)
        j2 == LeftJoin(j1, sap_t001w, <<"MANDT", "WERKS">>)
        j3 == LeftJoin(j2, sap_mbew, <<"MANDT", "MATNR", "BWKEY">>)
        j4 == LeftJoin(j3, sap_t001k, <<"MANDT", "BWKEY">>)
    IN  LeftJoin(j4, sap_t001, <<"MANDT", "BUKRS">>)

\* integration_order(sap_afko, sap_afpo, sap_aufk, sap_mara) with sap_cdpos
\* left at its default None.
integration_order(sap_afko, sap_afpo, sap_aufk, sap_mara) ==
    LET j1 == LeftJoin(sap_afko, sap_afpo, <<"AUFNR">>)
        j2 == LeftJoin(j1, sap_aufk, <<"AUFNR">>)
        result == LeftJoin(j2, sap_mara, <<"MATNR">>)
    IN  WithColumn(result, "GLTRP", "string",
            [r \in DOMAIN result.rows |->
                Coalesce(Cell(result, r, "ZZGLTRP_ORIG"),
                         Cell(result, r, "GLTRP"))])

---------------------------------------------------------------------------
(* Post-processors (_business_utils.py) *)

\* derive_intra_and_inter_primary_key(df)
derive_intra_and_inter_primary_key(d) ==
    LET d1 == WithColumn(d, "primary_key_intra", "string",
                  [r \in DOMAIN d.rows |->
                      V(ConcatWs("-", <<Cell(d, r, "MATNR"),
                                        Cell(d, r, "WERKS")>>))])
    IN  WithColumn(d1, "primary_key_inter", "string",
            [r \in DOMAIN d1.rows |->
                V(ConcatWs("-", <<Cell(d1, r, "SOURCE_SYSTEM_ERP"),
                                  Cell(d1, r, "MATNR"),
                                  Cell(d1, r, "WERKS")>>))])

MaterialKey == <<"SOURCE_SYSTEM_ERP", "MATNR", "WERKS">>

\* The dataset of post_prep_local_material before its dropDuplicates: the
\* derived columns and the duplicate count.
CountDuplicates(d) ==
    LET d1 == WithColumn(d, "mtl_plant_emd", "string",
                  [r \in DOMAIN d.rows |->
                      V(ConcatWs("-", <<Cell(d, r, "WERKS"),
                                        Cell(d, r, "NAME1")>>))])
        d2 == WithColumn(d1, "global_mtl_id", "string",
                  [r \in DOMAIN d1.rows |->
                      Coalesce(Cell(d1, r, "MATNR"),
                               Cell(d1, r, "GLOBAL_MATERIAL_NUMBER"))])
        d3 == derive_intra_and_inter_primary_key(d2)
    IN  WithColumn(d3, "no_of_duplicates", "long", CountOver(d3, MaterialKey))

\* post_prep_local_material(df): all the results the function can give
\* (which row of a group of duplicates survives is Spark's choice).
post_prep_local_material(d) == DropDuplicatesOn(CountDuplicates(d), MaterialKey)

\* The fields a string of the form yyyy-MM-dd is written with.
StrFields(s) == DateFields(CHOOSE k \in Days : DateStr(k) = s)

\* s < t for two strings of the form yyyy-MM-dd.  Spark compares strings
\* character by character; the fields have one width and are zero-padded,
\* so the first character that differs lies in the first field that
\* differs and orders the strings as that field's numbers.
StrLess(s, t) ==
    LET a == StrFields(s)
        b == StrFields(t)
    IN  \E i \in 1..3 : a[i] < b[i] /\ \A j \in 1..(i - 1) : a[j] = b[j]

\* F.datediff(end, start) of two string cells: the days from start to end,
\* null when either is null or no date.
DateDiff(end, start) ==
    IF IsNull(end) \/ IsNull(start) THEN NULL
    ELSE IF IsNull(ParseDate(end[1])) \/ IsNull(ParseDate(start[1])) THEN NULL
    ELSE V(ParseDate(end[1])[1] - ParseDate(start[1])[1])

\* A flag that is 1 only when the original date is strictly later.
OnTimeFlagStrict(orig, ltrmi) ==
    IF IsNull(orig) \/ IsNull(ltrmi) THEN NULL
    ELSE IF StrLess(ltrmi[1], orig[1]) THEN V(1)
    ELSE V(0)

\* F.when(ZZGLTRP_ORIG >= LTRMI, 1).when(ZZGLTRP_ORIG < LTRMI, 0)
\*  .otherwise(None), a comparison of two string cells.
OnTimeFlag(orig, ltrmi) ==
    IF IsNull(orig) \/ IsNull(ltrmi) THEN NULL
    ELSE IF ~StrLess(orig[1], ltrmi[1]) THEN V(1)
    ELSE IF StrLess(orig[1], ltrmi[1]) THEN V(0)
    ELSE NULL

\* Buckets whose upper thresholds are exclusive.
LateDeliveryBucketExclusive(dev) ==
    IF ~IsNull(dev) /\ dev[1] <= 0 THEN V("On-Time")
    ELSE IF ~IsNull(dev) /\ dev[1] >= 1 /\ dev[1] < 5 THEN V("Slightly Late")
    ELSE IF ~IsNull(dev) /\ dev[1] >= 5 /\ dev[1] < 10 THEN V("Moderately Late")
    ELSE V("Severely Late")

\* F.when(dev <= 0, "On-Time").when(dev.between(1, 5), "Slightly Late")
\*  .when(dev.between(6, 10), "Moderately Late").otherwise("Severely Late")
LateDeliveryBucket(dev) ==
    IF ~IsNull(dev) /\ dev[1] <= 0 THEN V("On-Time")
    ELSE IF ~IsNull(dev) /\ dev[1] >= 1 /\ dev[1] <= 5 THEN V("Slightly Late")
    ELSE IF ~IsNull(dev) /\ dev[1] >= 6 /\ dev[1] <= 10 THEN V("Moderately Late")
    ELSE V("Severely Late")

OrderKey == <<"AUFNR", "POSNR", "DWERK">>

\* Lines 648-656: the two keys of an order item.
with_order_keys(d) ==
    LET d1 == WithColumn(d, "primary_key_intra", "string",
                  [r \in DOMAIN d.rows |->
                      V(ConcatWs("_", KeyOf(d, r, OrderKey)))])
    IN  WithColumn(d1, "primary_key_inter", "string",
            [r \in DOMAIN d1.rows |->
                V(ConcatWs("_", <<Cell(d1, r, "SOURCE_SYSTEM_ERP")>>
                                  \o KeyOf(d1, r, OrderKey)))])

\* Lines 659-664.
with_on_time_flag(d) ==
    WithColumn(d, "on_time_flag", "integer",
        [r \in DOMAIN d.rows |->
            OnTimeFlag(Cell(d, r, "ZZGLTRP_ORIG"), Cell(d, r, "LTRMI"))])

\* Lines 667-670.
with_actual_on_time_deviation(d) ==
    WithColumn(d, "actual_on_time_deviation", "integer",
        [r \in DOMAIN d.rows |->
            DateDiff(Cell(d, r, "ZZGLTRP_ORIG"), Cell(d, r, "LTRMI"))])

\* Lines 673-679.
with_late_delivery_bucket(d) ==
    WithColumn(d, "late_delivery_bucket", "string",
        [r \in DOMAIN d.rows |->
            LateDeliveryBucket(Cell(d, r, "actual_on_time_deviation"))])

\* Lines 682-683: a dataset without the column gets it, null.
ensure_original_finish_date(d) ==
    IF ~InColumns(d, "ZZGLTRP_ORIG")
        THEN WithColumn(d, "ZZGLTRP_ORIG", "void", [r \in DOMAIN d.rows |-> NULL])
        ELSE d

\* Lines 686-689.
with_mto_vs_mts_flag(d) ==
    WithColumn(d, "mto_vs_mts_flag", "string",
        [r \in DOMAIN d.rows |->
            IF ~IsNull(Cell(d, r, "KDAUF")) THEN V("MTO") ELSE V("MTS")])

\* Lines 692-700.
with_order_timestamps(d) ==
    LET d1 == WithColumn(d, "order_finish_timestamp", "timestamp",
                  [r \in DOMAIN d.rows |->
                      Cast(Cell(d, r, "LTRMI"), "string", "timestamp")])
    IN  WithColumn(d1, "order_start_timestamp", "timestamp",
            [r \in DOMAIN d1.rows |->
                Cast(Cell(d1, r, "GSTRI"), "string", "timestamp")])

\* post_prep_process_order(df) raises AnalysisException when a column that
\* a step refers to does not resolve in the dataset the step is given: the
\* steps of lines 648-679 refer to the key columns, ZZGLTRP_ORIG and LTRMI
\* (before line 682 adds a missing ZZGLTRP_ORIG), the later ones to KDAUF,
\* LTRMI and GSTRI.
post_prep_process_order_raises(d) ==
    \E name \in {"SOURCE_SYSTEM_ERP", "AUFNR", "POSNR", "DWERK",
                  "ZZGLTRP_ORIG", "LTRMI", "KDAUF", "GSTRI"} :
        ~Resolves(d, name)

\* post_prep_process_order(df): the steps above, in the order of the code.
post_prep_process_order(d) ==
    with_order_timestamps(
      with_mto_vs_mts_flag(
        ensure_original_finish_date(
          with_late_delivery_bucket(
            with_actual_on_time_deviation(
              with_on_time_flag(
                with_order_keys(d)))))))

---------------------------------------------------------------------------
(* Input datasets: the tables a source directory can hold, as the loader   *)
(* types them (every column a string unless noted).                        *)

S1 == V("S1")

MarcCols == <<"SOURCE_SYSTEM_ERP", "MANDT", "MATNR", "WERKS", "LVORM",
              "PLIFZ", "DZEIT", "DISLS">>

MarcTypes == <<"string", "string", "string", "string", "string",
               "integer", "string", "string">>

\* Plant-material rows: material M1 or none, plant P1 or P2, deletion flag
\* set or not.
MarcRowSet ==
    {<<S1, V("100"), m, w, l, V(1), V("0"), NULL>> :
        m \in {V("M1"), NULL}, w \in {V("P1"), V("P2")}, l \in {NULL, V("X")}}

\* The plant-material tables: every bag of at most MaxRows rows.
MarcTables ==
    {DataFrame(MarcCols, MarcTypes, b) : b \in BagsUpTo(MarcRowSet, MaxRows)}

Table(cols, types, rowSet) ==
    DataFrame(cols, types, [r \in rowSet |-> 1])

MaraCols == <<"MANDT", "MATNR", "BISMT", "LVORM", "MEINS", "ZZMDGM",
              "MTART", "NTGEW">>

MaraTypes == [i \in DOMAIN MaraCols |-> "string"]

MaraRow(mandt, bismt) ==
    <<V(mandt), V("M1"), bismt, NULL, V("EA"), V("G1"), V("FERT"), V("5")>>

\* Material master tables: no row; M1 in one client; M1 in two clients;
\* M1 and an archived duplicate of it.
MaraTables ==
    {Table(MaraCols, MaraTypes, rs) :
        rs \in {{}, {MaraRow("100", NULL)},
                {MaraRow("100", NULL), MaraRow("200", NULL)},
                {MaraRow("100", NULL), MaraRow("100", V("ARCHIVE"))}}}

T001wCols == <<"MANDT", "WERKS", "BWKEY", "NAME1", "ORT01">>

T001wTypes == [i \in DOMAIN T001wCols |-> "string"]

\* Plant tables: no row; plant P1; plants P1 and P2.
T001wTables ==
    {Table(T001wCols, T001wTypes, rs) :
        rs \in {{},
                {<<V("100"), V("P1"), V("V1"), V("Plant One"), NULL>>},
                {<<V("100"), V("P1"), V("V1"), V("Plant One"), NULL>>,
                 <<V("100"), V("P2"), V("V1"), V("Plant Two"), NULL>>}}}

MbewCols == <<"MANDT", "MATNR", "BWKEY", "LVORM", "BWTAR", "LAEPR", "VPRSV",
              "VERPR", "STPRS", "PEINH", "BKLAS">>

MbewTypes == <<"string", "string", "string", "string", "string", "integer",
               "string", "integer", "integer", "integer", "string">>

MbewRow(mandt, matnr, lvorm, bwtar, laepr, verpr) ==
    <<mandt, matnr, V("V1"), lvorm, bwtar, laepr, V("S"), verpr, V(11),
      V(1), V("3000")>>

\* Valuation tables of the material pipeline: no row; one valuation of M1;
\* two of different last-evaluated price; two of the same.
MbewTables ==
    {Table(MbewCols, MbewTypes, rs) :
        rs \in {{},
                {MbewRow(V("100"), V("M1"), NULL, NULL, V(10), V(1))},
                {MbewRow(V("100"), V("M1"), NULL, NULL, V(10), V(1)),
                 MbewRow(V("100"), V("M1"), NULL, NULL, V(15), V(2))},
                {MbewRow(V("100"), V("M1"), NULL, NULL, V(10), V(1)),
                 MbewRow(V("100"), V("M1"), NULL, NULL, V(10), V(2))}}}

T001kCols == <<"MANDT", "BWKEY", "BUKRS">>

T001kTypes == [i \in DOMAIN T001kCols |-> "string"]

\* Valuation-area tables: no row; V1 in one company code; V1 in two.
T001kTables ==
    {Table(T001kCols, T001kTypes, rs) :
        rs \in {{},
                {<<V("100"), V("V1"), V("C1")>>},
                {<<V("100"), V("V1"), V("C1")>>,
                 <<V("100"), V("V1"), V("C2")>>}}}

T001Cols == <<"MANDT", "BUKRS", "WAERS">>

T001Types == [i \in DOMAIN T001Cols |-> "string"]

\* Company-code tables: no row; company code C1.
T001Tables ==
    {Table(T001Cols, T001Types, rs) :
        rs \in {{}, {<<V("100"), V("C1"), V("EUR")>>}}}

\* The reference tables of a run of the material pipeline: the ones in
\* which every entity has exactly the rows the plant-material rows match,
\* and the ones that differ from them in one entity.
MaterialBaseline ==
    [MARA  |-> Table(MaraCols, MaraTypes, {MaraRow("100", NULL)}),
     MBEW  |-> Table(MbewCols, MbewTypes,
                     {MbewRow(V("100"), V("M1"), NULL, NULL, V(10), V(1))}),
     T001W |-> Table(T001wCols, T001wTypes,
                     {<<V("100"), V("P1"), V("V1"), V("Plant One"), NULL>>,
                      <<V("100"), V("P2"), V("V1"), V("Plant Two"), NULL>>}),
     T001K |-> Table(T001kCols, T001kTypes, {<<V("100"), V("V1"), V("C1")>>}),
     T001  |-> Table(T001Cols, T001Types, {<<V("100"), V("C1"), V("EUR")>>})]

MaterialReferenceTables ==
    {t \in [MARA : MaraTables, MBEW : MbewTables, T001W : T001wTables,
            T001K : T001kTables, T001 : T001Tables] :
        Cardinality({e \in DOMAIN t : t[e] # MaterialBaseline[e]}) <= 1}

SystemNames == {"system_1"}

---------------------------------------------------------------------------
(* process_local_material (main_scripts/local_material.py) *)

NoNames == [n \in {} |-> NULL]

\* f with name n bound to value v.
Bind(f, n, v) == [m \in DOMAIN f \cup {n} |-> IF m = n THEN v ELSE f[m]]

\* save_df_as_csv(df, output_dir, file_name) raises when the write into
\* output_dir/temp_output does (line 355): the directory exists already
\* (the default save mode is errorifexists), or the job fails.
save_df_as_csv_raises(dir, job_succeeds) == dir.temp_output \/ ~job_succeeds

RECURSIVE JoinDots(_)
\* ".".join(parts): a file name, given as file_name.split("."), in one
\* string.
JoinDots(parts) ==
    IF Len(parts) = 1 THEN parts[1]
    ELSE parts[1] \o "." \o JoinDots(Tail(parts))

\* The directory after save_df_as_csv(df, dir, file_name), whether it
\* raised or returned; file_name is given as file_name.split("."). A write
\* that fails leaves temp_output behind; a write that succeeds is moved to
\* the output file, replacing the file of that name, and temp_output is
\* removed (lines 358-364). The name of the output file is the first part
\* of file_name and ".csv" when the last part is "csv", and file_name and
\* ".csv" otherwise (lines 348-349, 360). The file holds the header and
\* the rows of df, not its types.
save_df_as_csv(df, dir, file_name, job_succeeds) ==
    IF dir.temp_output THEN dir
    ELSE IF ~job_succeeds THEN [dir EXCEPT !.temp_output = TRUE]
    ELSE [dir EXCEPT !.files =
             Bind(@, IF file_name[Len(file_name)] = "csv"
                         THEN file_name[1] \o ".csv"
                         ELSE JoinDots(file_name) \o ".csv",
                  [header |-> df.cols, lines |-> df.rows])]

\* read_multiple_data(data_dir) of the directories a run can be given when
\* the module-level names are g. The first run of the process reads any
\* plant-material table with any reference tables; a later run reads the
\* same files again (for the baseline reference tables and a one-row
\* plant-material table).
MaterialDirectories(g) ==
    IF DOMAIN g = {}
        THEN {[MARC |-> marc, MARA |-> ref.MARA, MBEW |-> ref.MBEW,
               T001W |-> ref.T001W, T001K |-> ref.T001K, T001 |-> ref.T001] :
                 marc \in MarcTables, ref \in MaterialReferenceTables}
    ELSE IF /\ DOMAIN g = DOMAIN MaterialBaseline \cup {"MARC"}
            /\ \A n \in DOMAIN MaterialBaseline : g[n] = MaterialBaseline[n]
            /\ NumRows(g.MARC) = 1
        THEN {g}
    ELSE {}

\* Lines 126-128: the tables of data_dir are bound to module-level names,
\* which keep what an earlier run of the process has bound to them. The
\* directory holds the six entity files, or lacks the file of MARA.
LoadMaterial ==
    /\ pc \in {"idle", "material_saved", "material_failed"}
    /\ \E dir \in MaterialDirectories(globals), absent \in SUBSET {"MARA"},
          system_name \in SystemNames :
          /\ absent = {} \/ MaterialDirectories(dir) = {dir}
          /\ globals' = [n \in DOMAIN globals \cup (DOMAIN dir \ absent) |->
                            IF n \in DOMAIN dir \ absent THEN dir[n]
                                                        ELSE globals[n]]
          /\ locals' = [system_name |-> system_name,
                        data_dir |-> DOMAIN dir \ absent]
    /\ pc' = "material_loaded"
    /\ UNCHANGED output_dir

\* Lines 131-146: the six preparers. A name no run has bound raises
\* NameError (line 131).
PrepareMaterial ==
    /\ pc = "material_loaded"
    /\ IF "MARA" \notin DOMAIN globals
           THEN /\ locals' = Bind(locals, "error", "NameError")
                /\ pc' = "material_failed"
           ELSE /\ \E processed_mbew_df \in prep_material_valuation(globals.MBEW) :
                     locals' =
                       [system_name |-> locals.system_name,
                        data_dir |-> locals.data_dir,
                        processed_mara_df |->
                            prep_general_material_data(globals.MARA, "ZZMDGM",
                                                       TRUE, TRUE),
                        processed_mbew_df |-> processed_mbew_df,
                        processed_marc_df |->
                            prep_plant_data_for_material(globals.MARC, TRUE,
                                                         FALSE),
                        processed_t001w_df |->
                            prep_plant_and_branches(globals.T001W),
                        processed_t001k_df |->
                            prep_valuation_area(globals.T001K),
                        processed_t001_df |-> prep_company_codes(globals.T001)]
                /\ pc' = "material_prepared"
    /\ UNCHANGED <<globals, output_dir>>

\* Lines 149-156.
IntegrateMaterial ==
    /\ pc = "material_prepared"
    /\ locals' = Bind(locals, "integrated_data",
                      integrate_data(locals.processed_marc_df,
                                     locals.processed_mara_df,
                                     locals.processed_mbew_df,
                                     locals.processed_t001w_df,
                                     locals.processed_t001k_df,
                                     locals.processed_t001_df))
    /\ pc' = "material_integrated"
    /\ UNCHANGED <<globals, output_dir>>

\* Line 159.
PostPrepMaterial ==
    /\ pc = "material_integrated"
    /\ \E local_material \in post_prep_local_material(locals.integrated_data) :
          locals' = Bind(locals, "local_material", local_material)
    /\ pc' = "material_post"
    /\ UNCHANGED <<globals, output_dir>>

\* Lines 161-164: the rename and the enforcement of the unified schema.
EnforceMaterial ==
    /\ pc = "material_post"
    /\ locals' = Bind(locals, "local_material",
                      enforce_schema(
                          rename_and_select(locals.local_material,
                              LOCAL_MATERIAL_SCHEMA_WITH_RELAVENT_NAMES, FALSE),
                          UNIFIED_SCHEMA))
    /\ pc' = "material_enforced"
    /\ UNCHANGED <<globals, output_dir>>

\* Lines 165-167: the fill of the missing unified fields and the stamp of
\* the system name.
FillMaterial ==
    /\ pc = "material_enforced"
    /\ LET filled == add_missing_columns(locals.local_material, UNIFIED_SCHEMA)
       IN  locals' = Bind(locals, "local_material",
                          WithColumn(filled, "system_name", "string",
                              [r \in DOMAIN filled.rows |->
                                  V(locals.system_name)]))
    /\ pc' = "material_done"
    /\ UNCHANGED <<globals, output_dir>>

\* Line 170: save_df_as_csv(local_material, output_dir, file_name), with
\* the file name "local_material.csv"; the Spark job that writes may fail.
SaveMaterial ==
    /\ pc = "material_done"
    /\ \E job_succeeds \in BOOLEAN :
          /\ output_dir' = save_df_as_csv(locals.local_material, output_dir,
                                          <<"local_material", "csv">>,
                                          job_succeeds)
          /\ IF save_df_as_csv_raises(output_dir, job_succeeds)
                 THEN /\ locals' = Bind(locals, "error",
                              IF output_dir.temp_output
                                  THEN "AnalysisException"
                                  ELSE "Py4JJavaError")
                      /\ pc' = "material_failed"
                 ELSE /\ locals' = locals
                      /\ pc' = "material_saved"
    /\ UNCHANGED globals

---------------------------------------------------------------------------
(* Input datasets of the order pipeline *)

AfkoCols == <<"SOURCE_SYSTEM_ERP", "MANDT", "AUFNR", "GSTRP", "GLTRP",
              "GSTRI", "GLTRI">>

AfkoTypes == <<"string", "string", "string", "date", "string", "string",
               "string">>

\* Order-header rows: order O1 or O2, raw start date 2024-02-05 or none.
AfkoRowSet ==
    {<<S1, V("100"), V(o), g, V(DateStr(36)), V(DateStr(2)), NULL>> :
        o \in {"O1", "O2"}, g \in {NULL, V(35)}}

AfkoTables ==
    {DataFrame(AfkoCols, AfkoTypes, b) : b \in BagsUpTo(AfkoRowSet, MaxRows)}

AfpoCols == <<"AUFNR", "POSNR", "DWERK", "MATNR", "KDAUF", "LTRMI", "MEINS">>

AfpoTypes == [i \in DOMAIN AfpoCols |-> "string"]

AfpoRow(posnr, kdauf, ltrmi) ==
    <<V("O1"), V(posnr), V("P1"), V("M1"), kdauf, ltrmi, V("EA")>>

\* The actual finish date of the model's order items: 2024-02-01.
ActualFinish == CHOOSE d \in Days : DateFields(d) = <<2024, 2, 1>>

\* Order-item tables: no row; one item of O1; the item without an actual
\* finish date; two items of O1, one of them for a sales order.
AfpoTables ==
    {Table(AfpoCols, AfpoTypes, rs) :
        rs \in {{},
                {AfpoRow("1", NULL, V(DateStr(ActualFinish)))},
                {AfpoRow("1", NULL, NULL)},
                {AfpoRow("1", NULL, V(DateStr(ActualFinish))),
                 AfpoRow("2", V("SO1"), V(DateStr(ActualFinish)))}}}

AufkCols == <<"AUFNR", "OBJNR", "ERDAT", "ERNAM", "AUART", "ZZGLTRP_ORIG",
              "ZZPRO_TEXT">>

AufkTypes == [i \in DOMAIN AufkCols |-> "string"]

AufkRow(objnr, orig) ==
    <<V("O1"), V(objnr), V(DateStr(0)), V("USER"), V("PP01"), orig, NULL>>

\* The original finish dates of the model: the days from one day before
\* the actual finish date to 11 days after it that lie on either side of
\* a threshold of the late-delivery buckets.
OriginalFinishDays ==
    {ActualFinish + k : k \in {-1, 0, 1, 5, 6, 10, 11}}

\* Order-master tables: no row; one row of O1 with any original finish
\* date or none; two rows of O1.
AufkTables ==
    {Table(AufkCols, AufkTypes, rs) :
        rs \in {{}, {AufkRow("OR1", NULL)},
                {AufkRow("OR1", V(DateStr(ActualFinish))),
                 AufkRow("OR2", V(DateStr(ActualFinish + 1)))}}
               \cup {{AufkRow("OR1", V(DateStr(d)))} : d \in OriginalFinishDays}}

\* Material master tables of the order pipeline: no row; M1; M1 in two
\* clients.
MaraOrderTables ==
    {Table(MaraCols, MaraTypes, rs) :
        rs \in {{}, {MaraRow("100", NULL)},
                {MaraRow("100", NULL), MaraRow("200", NULL)}}}

\* As for the material pipeline: the tables that differ in at most one
\* entity from the ones in which every order has one item, one master row
\* and one material.
OrderBaseline ==
    [AFPO |-> Table(AfpoCols, AfpoTypes,
                    {AfpoRow("1", NULL, V(DateStr(ActualFinish)))}),
     AUFK |-> Table(AufkCols, AufkTypes,
                    {AufkRow("OR1", V(DateStr(ActualFinish)))}),
     MARA |-> Table(MaraCols, MaraTypes, {MaraRow("100", NULL)})]

OrderReferenceTables ==
    {t \in [AFPO : AfpoTables, AUFK : AufkTables, MARA : MaraOrderTables] :
        Cardinality({e \in DOMAIN t : t[e] # OrderBaseline[e]}) <= 1}

\* The days a run can take place on: 2024-01-25 and 2024-02-03.
CurrentDates == {24, 33}

---------------------------------------------------------------------------
(* The order pipeline (main_scripts/process_order.py) *)

\* read_multiple_data(data_dir) of the directories a run of process_order
\* can be given when the module-level names are g: any order headers with
\* any reference tables on the first run of the process, the same files
\* again on a later run (for the baseline reference tables and a one-row
\* header table).
OrderDirectories(g) ==
    IF DOMAIN g = {}
        THEN {[AFKO |-> afko, AFPO |-> ref.AFPO, AUFK |-> ref.AUFK,
               MARA |-> ref.MARA] :
                 afko \in AfkoTables, ref \in OrderReferenceTables}
    ELSE IF /\ \A n \in DOMAIN OrderBaseline : g[n] = OrderBaseline[n]
            /\ NumRows(g.AFKO) = 1
        THEN {g}
    ELSE {}

\* Lines 152-155: the tables of data_dir are bound to module-level names.
LoadOrder ==
    /\ pc \in {"idle", "order_saved", "order_failed"}
    /\ \E dir \in OrderDirectories(globals) :
          globals' = [n \in DOMAIN globals \cup DOMAIN dir |-> dir[n]]
    /\ locals' = NoNames
    /\ pc' = "order_loaded"
    /\ UNCHANGED output_dir

\* The calls that prepare the material master for the order pipeline.
\* Line 168 as written passes a keyword schema that
\* prep_general_material_data does not take, and Python raises TypeError.
\* The integrator and the post-processor are reached by a call the
\* preparers accept: prep_general_material_data(MARA, "ZZMDGM"), which
\* enforces MARA_SCHEMA, or dataframe_with_enforced_schema(MARA,
\* MARA_ORDER_SCHEMA), which enforces the schema line 168 names.
MaterialCalls == {"as_written", "material_schema", "order_schema"}

\* Lines 158-168: the four preparers, run on the day current_date.
PrepareOrder ==
    /\ pc = "order_loaded"
    /\ \E current_date \in CurrentDates, material_call \in MaterialCalls :
          LET prepared ==
                [processed_afko_df |->
                     prep_order_header_data(globals.AFKO, current_date),
                 processed_afpo_df |->
                     dataframe_with_enforced_schema(globals.AFPO, AFPO_SCHEMA),
                 processed_aufk_df |->
                     dataframe_with_enforced_schema(globals.AUFK, AUFK_SCHEMA)]
          IN  IF material_call = "as_written"
                  THEN /\ locals' = Bind(prepared, "error", "TypeError")
                       /\ pc' = "order_failed"
                  ELSE /\ locals' = Bind(prepared, "processed_mara_df",
                              IF material_call = "order_schema"
                                  THEN dataframe_with_enforced_schema(
                                           globals.MARA, MARA_ORDER_SCHEMA)
                                  ELSE prep_general_material_data(
                                           globals.MARA, "ZZMDGM", TRUE, TRUE))
                       /\ pc' = "order_prepared"
    /\ UNCHANGED <<globals, output_dir>>

\* Lines 171-176.
IntegrateOrder ==
    /\ pc = "order_prepared"
    /\ locals' = Bind(locals, "integrated_df",
                      integration_order(locals.processed_afko_df,
                                        locals.processed_afpo_df,
                                        locals.processed_aufk_df,
                                        locals.processed_mara_df))
    /\ pc' = "order_integrated"
    /\ UNCHANGED <<globals, output_dir>>

\* Line 179.
PostPrepOrder ==
    /\ pc = "order_integrated"
    /\ locals' = Bind(locals, "process_order",
                      post_prep_process_order(locals.integrated_df))
    /\ pc' = "order_post"
    /\ UNCHANGED <<globals, output_dir>>

\* Lines 181-183: the rename and the enforcement of the unified schema,
\* which raises when the dataset has two columns of one unified name.
EnforceOrder ==
    /\ pc = "order_post"
    /\ LET renamed == rename_and_select(locals.process_order,
                           PROCESS_ORDER_SCHEMA_WITH_RELAVENT_NAMES, FALSE)
       IN  IF enforce_schema_raises(renamed, UNIFIED_SCHEMA)
               THEN /\ pc' = "order_failed"
                    /\ locals' = Bind(locals, "error", "AnalysisException")
               ELSE /\ pc' = "order_enforced"
                    /\ locals' = Bind(locals, "process_order",
                                      enforce_schema(renamed, UNIFIED_SCHEMA))
    /\ UNCHANGED <<globals, output_dir>>

\* Line 184: the fill of the missing unified fields.
FillOrder ==
    /\ pc = "order_enforced"
    /\ locals' = Bind(locals, "process_order",
                      add_missing_columns(locals.process_order, UNIFIED_SCHEMA))
    /\ pc' = "order_done"
    /\ UNCHANGED <<globals, output_dir>>

\* Line 187: save_df_as_csv(process_order, output_dir, file_name), with the
\* file name "process_order.csv"; the Spark job that writes may fail.
SaveOrder ==
    /\ pc = "order_done"
    /\ \E job_succeeds \in BOOLEAN :
          /\ output_dir' = save_df_as_csv(locals.process_order, output_dir,
                                          <<"process_order", "csv">>,
                                          job_succeeds)
          /\ IF save_df_as_csv_raises(output_dir, job_succeeds)
                 THEN /\ locals' = Bind(locals, "error",
                              IF output_dir.temp_output
                                  THEN "AnalysisException"
                                  ELSE "Py4JJavaError")
                      /\ pc' = "order_failed"
                 ELSE /\ locals' = locals
                      /\ pc' = "order_saved"
    /\ UNCHANGED globals

---------------------------------------------------------------------------
(* Calls of single functions of the library *)

\* Valuation rows of materials M1 and M2 in one valuation area: flagged for
\* deletion, of a valuation type, or neither; last evaluated at price 10,
\* at 15, or never; a second row of M1 last evaluated at 15; and a row of
\* M1 in a second client, 200.  The moving average price of a row tells the
\* rows of a material apart.
ValuationRowSet ==
    {MbewRow(V("100"), V(m), f[1], f[2], l, IF IsNull(l) THEN V(1) ELSE l) :
        m \in {"M1", "M2"},
        f \in {<<NULL, NULL>>, <<V("X"), NULL>>, <<NULL, V("B1")>>},
        l \in {NULL, V(10), V(15)}}
    \cup {MbewRow(V("100"), V("M1"), NULL, NULL, V(15), V(2)),
          MbewRow(V("200"), V("M1"), NULL, NULL, V(10), V(3))}

ValuationTables ==
    {DataFrame(MbewCols, MbewTypes, b) : b \in BagsUpTo(ValuationRowSet, MaxRows)}

\* processed = prep_material_valuation(df)
CallPrepMaterialValuation ==
    /\ pc = "idle"
    /\ \E df \in ValuationTables :
          \E processed \in prep_material_valuation(df) :
              locals' = [df |-> df, processed |-> processed]
    /\ pc' = "prep_material_valuation_returned"
    /\ UNCHANGED <<globals, output_dir>>

\* The cells a column of the generic datasets can hold.
GenericValues(name) ==
    CASE name = "id"     -> {V(1), V(2)}
      [] name = "name"   -> {V("a"), NULL}
      [] name = "amount" -> {V("7"), V("k")}
      [] OTHER           -> {V("e")}

GenericType(name) == IF name = "id" THEN "integer" ELSE "string"

RECURSIVE GenericRows(_)
GenericRows(cols) ==
    IF cols = <<>> THEN {<<>>}
    ELSE {<<c>> \o r : c \in GenericValues(Head(cols)),
                      r \in GenericRows(Tail(cols))}

\* Generic datasets: some of the columns id, name, amount and extra, in
\* some order, with at most MaxRows rows.
GenericColumns ==
    {<<"id", "name", "amount", "extra">>, <<"amount", "id">>,
     <<"name", "id">>, <<"extra">>}

GenericFrames ==
    UNION {{DataFrame(cols, [i \in DOMAIN cols |-> GenericType(cols[i])], b) :
               b \in BagsUpTo(GenericRows(cols), MaxRows)} :
           cols \in GenericColumns}

\* Target schemas: a subset of the columns; a reordering with casts and a
\* field no dataset has; fields of several types no dataset has.
GenericSchemas ==
    {<<Field("id", "integer"), Field("name", "string")>>,
     <<Field("amount", "integer"), Field("id", "string"),
       Field("missing", "double")>>,
     <<Field("name", "string"), Field("since", "date"),
       Field("count", "long"), Field("note", "string")>>}

\* result = enforce_schema(df, schema)
CallEnforceSchema ==
    /\ pc = "idle"
    /\ \E df \in GenericFrames, schema \in GenericSchemas :
          IF enforce_schema_raises(df, schema)
              THEN /\ locals' = [df |-> df, schema |-> schema,
                                 error |-> "AnalysisException"]
                   /\ pc' = "enforce_schema_raised"
              ELSE /\ locals' = [df |-> df, schema |-> schema,
                                 result |-> enforce_schema(df, schema)]
                   /\ pc' = "enforce_schema_returned"
    /\ UNCHANGED <<globals, output_dir>>

\* result = add_missing_columns(df, schema)
CallAddMissingColumns ==
    /\ pc = "idle"
    /\ \E df \in GenericFrames, schema \in GenericSchemas :
          locals' = [df |-> df, schema |-> schema,
                     result |-> add_missing_columns(df, schema)]
    /\ pc' = "add_missing_columns_returned"
    /\ UNCHANGED <<globals, output_dir>>

\* Integrated datasets as post_prep_local_material is given them: rows
\* with or without a plant, with or without a material number (one of the
\* material numbers contains a hyphen), with or without a global material
\* number, in one of two units of measure.
IntegratedFrames ==
    LET cols == <<"SOURCE_SYSTEM_ERP", "MATNR", "WERKS", "NAME1",
                  "global_material_number", "MEINS">>
        rowSet == {<<S1, m, w, V("Plant One"), g, V(u)>> :
                      m \in {V("M1"), V("M1-P1"), NULL},
                      w \in {V("P1"), NULL}, g \in {V("G1"), NULL},
                      u \in {"EA", "KG"}}
    IN  {DataFrame(cols, [i \in DOMAIN cols |-> "string"], b) :
            b \in BagsUpTo(rowSet, MaxRows)}

\* result = post_prep_local_material(df)
CallPostPrepLocalMaterial ==
    /\ pc = "idle"
    /\ \E df \in IntegratedFrames :
          \E result \in post_prep_local_material(df) :
              locals' = [df |-> df, result |-> result]
    /\ pc' = "post_prep_local_material_returned"
    /\ UNCHANGED <<globals, output_dir>>

\* The types of the values a caller passes for a dataset argument
\* (type(x).__name__).
ArgumentTypes == {"DataFrame", "int", "NoneType"}

\* process_data(string_check, dataframe_check, boolean_check) on values of
\* the given types: the exception it raises, or "none". An argument that is
\* None counts as not supplied.
process_data(string_check, dataframe_check, boolean_check) ==
    IF \/ string_check \notin {"NoneType", "str"}
       \/ dataframe_check \notin {"NoneType", "DataFrame"}
       \/ boolean_check \notin {"NoneType", "bool"}
        THEN "TypeError" ELSE "none"

\* result = integration_order(sap_afko, sap_afpo, sap_aufk, sap_mara) on
\* values of any types; sap_cdpos keeps its default None. Lines 600-601
\* validate sap_afpo, sap_aufk, sap_mara and sap_cdpos; sap_afko.join
\* (line 604) raises AttributeError on an int or None, and a join with
\* None raises AttributeError.
CallIntegrationOrder ==
    /\ pc = "idle"
    /\ \E args \in [{"sap_afko", "sap_afpo", "sap_aufk", "sap_mara"}
                        -> ArgumentTypes], afko \in AfkoTables :
          LET checked == {args.sap_afpo, args.sap_aufk, args.sap_mara,
                          "NoneType"}
          IN  IF \E t \in checked :
                     process_data("NoneType", t, "NoneType") = "TypeError"
                  THEN /\ locals' = [args |-> args, error |-> "TypeError"]
                       /\ pc' = "integration_order_raised"
              ELSE IF \E a \in DOMAIN args : args[a] # "DataFrame"
                  THEN /\ locals' = [args |-> args,
                                     error |-> "AttributeError"]
                       /\ pc' = "integration_order_raised"
              ELSE /\ locals' =
                        [args |-> args,
                         result |-> integration_order(
                             prep_order_header_data(afko, 24),
                             dataframe_with_enforced_schema(
                                 OrderBaseline.AFPO, AFPO_SCHEMA),
                             dataframe_with_enforced_schema(
                                 OrderBaseline.AUFK, AUFK_SCHEMA),
                             dataframe_with_enforced_schema(
                                 OrderBaseline.MARA, MARA_ORDER_SCHEMA))]
                   /\ pc' = "integration_order_returned"
    /\ UNCHANGED <<globals, output_dir>>

\* read_file(file_path, file_format, options) where exists is the set of
\* the paths that exist: the exception raised, or "none" when the file is
\* read. A value is given by its type and, for a string, its text (repr),
\* for options its number of entries (len).
read_file(file_path, file_format, options, exists) ==
    IF file_path.type # "str" \/ file_path.repr \in {"", " "}
        THEN "ValueError: Invalid file path"
    ELSE IF Lower(file_format) \notin {"csv", "json", "parquet", "avro", "orc"}
        THEN "ValueError: Unsupported file format"
    ELSE IF file_path.repr \notin exists
        THEN "FileNotFoundError"
    ELSE IF options.len > 0 /\ options.type # "dict"
        THEN "ValueError: Options must be a dictionary."
    ELSE "none"

\* read_file(file_path, file_format, options) in a directory that holds
\* sample.csv, on paths that are empty, blank, no string, missing and
\* present, on formats in and out of the supported ones, and on options
\* that are None, a dictionary or a list, empty or not.
CallReadFile ==
    /\ pc = "idle"
    /\ \E file_path \in [type : {"str"},
                         repr : {"", " ", "missing.csv", "sample.csv"}]
                           \cup [type : {"int"}, repr : {"7"}],
          file_format \in {"csv", "CSV", "xml", "orc"},
          options \in [type : {"dict", "list"}, len : {0, 1}]
                         \cup [type : {"NoneType"}, len : {0}] :
          /\ locals' = [file_path |-> file_path, file_format |-> file_format,
                        options |-> options,
                        raised |-> read_file(file_path, file_format, options,
                                             {"sample.csv"})]
          /\ pc' = IF read_file(file_path, file_format, options,
                                {"sample.csv"}) = "none"
                       THEN "read_file_returned" ELSE "read_file_raised"
    /\ UNCHANGED <<globals, output_dir>>

\* The loop of read_multiple_data (lines 293-311) over what is left of
\* os.listdir(data_dir), with the dictionary built so far and the value of
\* the loop's variable df ("unbound" before the first .csv file). An
\* entry of the listing is its base name, its extension and whether it is
\* a file; the dataset read from a file is named by the file. A file that
\* is no .csv file is stored under its base name with the df of the last
\* .csv file read, and raises UnboundLocalError when there was none.
RECURSIVE read_multiple_data(_, _, _)
read_multiple_data(listing, dataframes_dict, df) ==
    IF listing = <<>> THEN [raised |-> "none", value |-> dataframes_dict]
    ELSE IF ~Head(listing).isfile
        THEN read_multiple_data(Tail(listing), dataframes_dict, df)
    ELSE IF Head(listing).ext # ".csv" /\ df = "unbound"
        THEN [raised |-> "UnboundLocalError", value |-> dataframes_dict]
    ELSE IF Head(listing).ext # ".csv"
        THEN read_multiple_data(Tail(listing),
                 Bind(dataframes_dict, Head(listing).base, df), df)
    ELSE read_multiple_data(Tail(listing),
             Bind(dataframes_dict, Head(listing).base,
                  Head(listing).base \o ".csv"),
             Head(listing).base \o ".csv")

\* result = read_multiple_data(data_dir) for a directory that holds some
\* of MARA.csv, MARC.csv, notes.txt and the subdirectory sub, listed in
\* any order.
CallReadMultipleData ==
    /\ pc = "idle"
    /\ \E listing \in
            {l \in UNION {[1..k -> [base : {"MARA", "MARC"}, ext : {".csv"},
                                    isfile : {TRUE}]
                                   \cup [base : {"notes"}, ext : {".txt"},
                                         isfile : {TRUE}]
                                   \cup [base : {"sub"}, ext : {""},
                                         isfile : {FALSE}]] : k \in 0..4} :
                \A i, j \in DOMAIN l : l[i] = l[j] => i = j} :
          LET result == read_multiple_data(listing, NoNames, "unbound")
          IN  /\ locals' = [listing |-> listing, raised |-> result.raised,
                            result |-> result.value]
              /\ pc' = IF result.raised = "none"
                           THEN "read_multiple_data_returned"
                           ELSE "read_multiple_data_raised"
    /\ UNCHANGED <<globals, output_dir>>

\* Material master datasets whose global material number is in the column
\* global_column: rows with every kind of old material number BISMT and of
\* deletion flag LVORM, each with a material number of its own.
MaterialMasterFrames(global_column) ==
    LET cols == <<"MANDT", "MATNR", "BISMT", "LVORM", "MEINS", global_column>>
        rowSet == {<<V("100"),
                     V((IF IsNull(b) THEN "null" ELSE b[1]) \o "/"
                          \o (IF IsNull(l) THEN "null" ELSE l[1])),
                     b, l, V("EA"), V("G1")>> :
                      b \in {NULL, V("ARCHIVE"), V("DUPLICATE"),
                             V("RENUMBERED"), V("OLD1")},
                      l \in {NULL, V(""), V("X")}}
    IN  {DataFrame(cols, [i \in DOMAIN cols |-> "string"], b) :
            b \in BagsUpTo(rowSet, MaxRows)}

\* result = prep_general_material_data(df, col_mara_global_material_number,
\*     check_old_material_number_is_valid, check_material_is_not_deleted)
CallPrepGeneralMaterialData ==
    /\ pc = "idle"
    /\ \E col_mara_global_material_number \in {"ZZMDGM", "GLOBAL_ID"},
          check_old_material_number_is_valid \in BOOLEAN,
          check_material_is_not_deleted \in BOOLEAN :
          \E df \in MaterialMasterFrames(col_mara_global_material_number) :
              locals' =
                [df |-> df,
                 col_mara_global_material_number |->
                     col_mara_global_material_number,
                 check_old_material_number_is_valid |->
                     check_old_material_number_is_valid,
                 check_material_is_not_deleted |->
                     check_material_is_not_deleted,
                 result |-> prep_general_material_data(df,
                                col_mara_global_material_number,
                                check_old_material_number_is_valid,
                                check_material_is_not_deleted)]
    /\ pc' = "prep_general_material_data_returned"
    /\ UNCHANGED <<globals, output_dir>>

\* result = prep_order_header_data(df) on the day current_date, for order
\* headers whose raw start date GSTRP is missing, a first of a month
\* (2024-01-01), a last of a month (2024-01-31) or within a month
\* (2024-02-05), each with an order number of its own.
CallPrepOrderHeaderData ==
    /\ pc = "idle"
    /\ \E current_date \in CurrentDates,
          b \in BagsUpTo({<<S1, V("100"), V(h[1]), h[2], V(DateStr(36)),
                            V(DateStr(2)), NULL>> :
                              h \in {<<"O0", NULL>>, <<"O1", V(0)>>,
                                     <<"O2", V(30)>>, <<"O3", V(35)>>}},
                         MaxRows) :
          locals' = [df |-> DataFrame(AfkoCols, AfkoTypes, b),
                     current_date |-> current_date,
                     result |-> prep_order_header_data(
                                    DataFrame(AfkoCols, AfkoTypes, b),
                                    current_date)]
    /\ pc' = "prep_order_header_data_returned"
    /\ UNCHANGED <<globals, output_dir>>

\* result = rename_and_select(df, mapping, select) with maps that rename
\* to new names, that keep a name, that rename a column to the old name of
\* another mapped column, and that exchange two names.
CallRenameAndSelect ==
    /\ pc = "idle"
    /\ \E df \in GenericFrames, select \in BOOLEAN,
          mapping \in {<<<<"id", "key">>, <<"name", "label">>>>,
                       <<<<"name", "name">>, <<"id", "key">>>>,
                       <<<<"id", "name">>, <<"name", "label">>>>,
                       <<<<"id", "name">>, <<"name", "id">>>>} :
          IF rename_and_select_raises(df, mapping, select)
              THEN /\ locals' = [df |-> df, mapping |-> mapping,
                                 select |-> select,
                                 error |-> "AnalysisException"]
                   /\ pc' = "rename_and_select_raised"
              ELSE /\ locals' = [df |-> df, mapping |-> mapping,
                                 select |-> select,
                                 result |-> rename_and_select(df, mapping,
                                                              select)]
                   /\ pc' = "rename_and_select_returned"
    /\ UNCHANGED <<globals, output_dir>>

\* save_df_as_csv(df, output_dir, file_name) into an empty directory, for
\* file names with and without the extension .csv and with and without
\* another dot; the Spark job that writes may fail.
CallSaveDfAsCsv ==
    /\ pc = "idle"
    /\ \E df \in {d \in GenericFrames : d.cols = <<"extra">>},
          file_name \in {<<"out", "csv">>, <<"out">>, <<"out", "v2", "csv">>,
                         <<"out", "v2">>},
          job_succeeds \in BOOLEAN :
          /\ output_dir' = save_df_as_csv(df, output_dir, file_name,
                                          job_succeeds)
          /\ locals' = [df |-> df, file_name |-> file_name]
          /\ pc' = IF save_df_as_csv_raises(output_dir, job_succeeds)
                       THEN "save_df_as_csv_raised"
                       ELSE "save_df_as_csv_returned"
    /\ UNCHANGED globals

\* result = post_prep_process_order(df) on integrated order datasets, as
\* the integrator returns them and without the column ZZGLTRP_ORIG.
CallPostPrepProcessOrder ==
    /\ pc = "idle"
    /\ \E afko \in AfkoTables, has_original_finish_date \in BOOLEAN :
          LET integrated ==
                integration_order(
                    prep_order_header_data(afko, 24),
                    dataframe_with_enforced_schema(OrderBaseline.AFPO,
                                                   AFPO_SCHEMA),
                    dataframe_with_enforced_schema(OrderBaseline.AUFK,
                                                   AUFK_SCHEMA),
                    dataframe_with_enforced_schema(OrderBaseline.MARA,
                                                   MARA_ORDER_SCHEMA))
              df == IF has_original_finish_date THEN integrated
                    ELSE Select(integrated,
                                SelectSeq(integrated.cols,
                                          LAMBDA n : n # "ZZGLTRP_ORIG"))
          IN  IF post_prep_process_order_raises(df)
                  THEN /\ locals' = [df |-> df, error |-> "AnalysisException"]
                       /\ pc' = "post_prep_process_order_raised"
                  ELSE /\ locals' = [df |-> df,
                                     result |-> post_prep_process_order(df)]
                       /\ pc' = "post_prep_process_order_returned"
    /\ UNCHANGED <<globals, output_dir>>

---------------------------------------------------------------------------
(* Specification *)

Init ==
    /\ pc = "idle"
    /\ globals = NoNames
    /\ locals = NoNames
    /\ output_dir = [temp_output |-> FALSE, files |-> NoNames]

NextMaterial ==
    \/ LoadMaterial
    \/ PrepareMaterial
    \/ IntegrateMaterial
    \/ PostPrepMaterial
    \/ EnforceMaterial
    \/ FillMaterial
    \/ SaveMaterial

SpecMaterial == Init /\ [][NextMaterial]_vars

NextOrder ==
    \/ LoadOrder
    \/ PrepareOrder
    \/ IntegrateOrder
    \/ PostPrepOrder
    \/ EnforceOrder
    \/ FillOrder
    \/ SaveOrder

SpecOrder == Init /\ [][NextOrder]_vars

NextCalls ==
    \/ CallPrepMaterialValuation
    \/ CallEnforceSchema
    \/ CallAddMissingColumns
    \/ CallPostPrepLocalMaterial
    \/ CallIntegrationOrder
    \/ CallReadFile
    \/ CallReadMultipleData
    \/ CallPrepGeneralMaterialData
    \/ CallPrepOrderHeaderData
    \/ CallRenameAndSelect
    \/ CallSaveDfAsCsv
    \/ CallPostPrepProcessOrder

SpecCalls == Init /\ [][NextCalls]_vars

Next ==
    \/ NextMaterial
    \/ NextOrder
    \/ NextCalls

Spec == Init /\ [][Next]_vars

---------------------------------------------------------------------------
(* Properties *)

\* The number of rows of d, with multiplicity, whose cells in the columns
\* names are key.
RowsWithKey(d, names, key) ==
    SumOver({r \in DOMAIN d.rows : KeyOf(d, r, names) = key}, d.rows)

\* The keys of the rows of d in the columns names.
Keys(d, names) == {KeyOf(d, r, names) : r \in DOMAIN d.rows}

\* C1: when post_prep_local_material has returned, its output has exactly
\* one row for every (SOURCE_SYSTEM_ERP, MATNR, WERKS) of its input, the
\* integrated dataset, and no row of any other key.
C1_MaterialKeyUnique ==
    pc = "material_post" =>
        /\ Keys(locals.local_material, MaterialKey)
              = Keys(locals.integrated_data, MaterialKey)
        /\ \A k \in Keys(locals.integrated_data, MaterialKey) :
              RowsWithKey(locals.local_material, MaterialKey, k) = 1

\* C1 witness: the post-processor has returned two rows from an input in
\* which several rows shared a key.
C1_Witness ==
    /\ pc = "material_post"
    /\ NumRows(locals.local_material) = 2
    /\ NumRows(locals.integrated_data) > 2
    /\ \E k \in Keys(locals.integrated_data, MaterialKey) :
          RowsWithKey(locals.integrated_data, MaterialKey, k) >= 2

\* C2: in the material pipeline, no_of_duplicates on each surviving row is
\* at least 1 and is the number of plant-material rows the integrator was
\* given with that row's (SOURCE_SYSTEM_ERP, MATNR, WERKS), however many
\* rows of the joined entities match them.
C2_DuplicatesCountRawRows ==
    pc = "material_post" =>
        \A r \in DOMAIN locals.local_material.rows :
            /\ Cell(locals.local_material, r, "no_of_duplicates")[1] >= 1
            /\ Cell(locals.local_material, r, "no_of_duplicates")[1]
                  = RowsWithKey(locals.processed_marc_df, MaterialKey,
                                KeyOf(locals.local_material, r, MaterialKey))

OutputKey == <<"order_number", "order_item_number", "plant">>

\* C3: in the harmonized order output no two rows share the same
\* (order_number, item_number, plant), also when an order item matches
\* several order-master or material rows.
C3_OrderKeyUnique ==
    pc = "order_done" =>
        \A k \in Keys(locals.process_order, OutputKey) :
            RowsWithKey(locals.process_order, OutputKey, k) = 1

\* Every key of the base dataset is a key of the integrated dataset with
\* at least as many rows, and the integrated dataset has no other key.
LeftPreserving(base, out, key) ==
    /\ Keys(out, key) = Keys(base, key)
    /\ \A k \in Keys(base, key) :
          RowsWithKey(out, key, k) >= RowsWithKey(base, key, k)

\* The cell of row r of the integrated dataset out in the column name of a
\* joined entity: the last column of that name.
JoinedCell(out, r, name) ==
    r[CHOOSE i \in Resolve(out, name) : \A j \in Resolve(out, name) : j <= i]

\* A row of the integrated dataset that no row of the joined entity e
\* equals on the join columns has null in every other column of e.
NullsWhereNoMatch(out, e, on) ==
    \A r \in DOMAIN out.rows :
        (\A q \in DOMAIN e.rows :
            \E i \in DOMAIN on :
                \/ IsNull(Cell(out, r, on[i]))
                \/ Cell(out, r, on[i]) # Cell(e, q, on[i]))
        => \A name \in Range(e.cols) \ Range(on) :
               IsNull(JoinedCell(out, r, name))

\* C4: both integrators are left-preserving.  The integrated dataset has
\* exactly the keys of the base dataset (prepared plant-material by
\* (SOURCE_SYSTEM_ERP, MATNR, WERKS), order header by (SOURCE_SYSTEM_ERP,
\* AUFNR)), no base row is dropped, and a row without a match in a joined
\* entity has nulls in that entity's fields.
C4_LeftPreserving ==
    /\ pc = "material_integrated" =>
          /\ LeftPreserving(locals.processed_marc_df, locals.integrated_data,
                            MaterialKey)
          /\ NullsWhereNoMatch(locals.integrated_data,
                               locals.processed_mara_df, <<"MATNR">>)
          /\ NullsWhereNoMatch(locals.integrated_data,
                               locals.processed_t001w_df, <<"MANDT", "WERKS">>)
          /\ NullsWhereNoMatch(locals.integrated_data,
                               locals.processed_mbew_df,
                               <<"MANDT", "MATNR", "BWKEY">>)
          /\ NullsWhereNoMatch(locals.integrated_data,
                               locals.processed_t001k_df, <<"MANDT", "BWKEY">>)
          /\ NullsWhereNoMatch(locals.integrated_data,
                               locals.processed_t001_df, <<"MANDT", "BUKRS">>)
    /\ pc = "order_integrated" =>
          /\ LeftPreserving(locals.processed_afko_df, locals.integrated_df,
                            <<"SOURCE_SYSTEM_ERP", "AUFNR">>)
          /\ NullsWhereNoMatch(locals.integrated_df,
                               locals.processed_afpo_df, <<"AUFNR">>)
          /\ NullsWhereNoMatch(locals.integrated_df,
                               locals.processed_aufk_df, <<"AUFNR">>)
          /\ NullsWhereNoMatch(locals.integrated_df,
                               locals.processed_mara_df, <<"MATNR">>)

\* C4 witness: the material integrator has returned two rows for two
\* plant-material rows, one of a plant the plant table has and one of a
\* plant it has not, the latter with null plant fields.
C4_Witness ==
    /\ pc = "material_integrated"
    /\ NumRows(locals.processed_marc_df) = 2
    /\ \E r, q \in DOMAIN locals.integrated_data.rows :
          /\ ~IsNull(Cell(locals.integrated_data, r, "NAME1"))
          /\ IsNull(Cell(locals.integrated_data, q, "NAME1"))
          /\ IsNull(Cell(locals.integrated_data, q, "BWKEY"))
          /\ ~IsNull(Cell(locals.integrated_data, q, "WERKS"))

ValuationGroup == <<"MATNR", "BWKEY">>

\* The rows of a raw valuation dataset without deletion flag and without
\* valuation type.
Eligible(df) ==
    {r \in DOMAIN df.rows :
        IsNull(Cell(df, r, "LVORM")) /\ IsNull(Cell(df, r, "BWTAR"))}

\* No eligible row of r's (MATNR, BWKEY) has a higher last-evaluated price
\* (a row without price is below every price).
HighestPrice(df, r) ==
    \A q \in Eligible(df) :
        KeyOf(df, q, ValuationGroup) = KeyOf(df, r, ValuationGroup)
            => \/ IsNull(Cell(df, q, "LAEPR"))
               \/ /\ ~IsNull(Cell(df, r, "LAEPR"))
                  /\ Cell(df, r, "LAEPR")[1] >= Cell(df, q, "LAEPR")[1]

\* C5: prep_material_valuation returns exactly one row for every
\* (MATNR, BWKEY) of the rows with null LVORM and null BWTAR, none for any
\* other, and each returned row is the valuation of a row of the highest
\* LAEPR of its group.
C5_ValuationHighestPrice ==
    pc = "prep_material_valuation_returned" =>
        LET df  == locals.df
            out == locals.processed
        IN  /\ Keys(out, ValuationGroup)
                  = {KeyOf(df, r, ValuationGroup) : r \in Eligible(df)}
            /\ \A k \in Keys(out, ValuationGroup) :
                  RowsWithKey(out, ValuationGroup, k) = 1
            /\ \A o \in DOMAIN out.rows :
                  \E r \in Eligible(df) :
                      /\ HighestPrice(df, r)
                      /\ \A i \in DOMAIN out.cols :
                            o[i] = Cell(df, r, out.cols[i])

\* C5 witness: the preparer was given two rows of one material, both
\* without flags, last evaluated at 10 and at 15, and has returned one
\* row, the one whose moving average price is that of the 15 row.
C5_Witness ==
    /\ pc = "prep_material_valuation_returned"
    /\ \E r, q \in Eligible(locals.df) :
          /\ KeyOf(locals.df, q, ValuationGroup)
                = KeyOf(locals.df, r, ValuationGroup)
          /\ Cell(locals.df, r, "LAEPR") = V(10)
          /\ Cell(locals.df, q, "LAEPR") = V(15)
          /\ \A o \in DOMAIN locals.processed.rows :
                Cell(locals.processed, o, "VERPR") = Cell(locals.df, q, "VERPR")
    /\ NumRows(locals.processed) = 1

\* C6: enforce_schema is a pure projection.  It raises nothing for missing
\* or extra columns; the columns of its result are the schema fields whose
\* names are columns of df, in schema order and of the schema's types;
\* every row of df gives one row of the result, its cells cast.
C6_EnforceSchemaProjection ==
    /\ pc # "enforce_schema_raised"
    /\ pc = "enforce_schema_returned" =>
          LET df       == locals.df
              out      == locals.result
              InDf(f)  == f.name \in Range(df.cols)
              kept     == SelectSeq(locals.schema, InDf)
              image(r) == [i \in DOMAIN kept |->
                              Cast(Cell(df, r, kept[i].name),
                                   ColType(df, kept[i].name), kept[i].type)]
          IN  /\ out.cols = [i \in DOMAIN kept |-> kept[i].name]
              /\ out.types = [i \in DOMAIN kept |-> kept[i].type]
              /\ NumRows(out) = NumRows(df)
              /\ DOMAIN out.rows = {image(r) : r \in DOMAIN df.rows}
              /\ \A q \in DOMAIN out.rows :
                    out.rows[q]
                       = SumOver({r \in DOMAIN df.rows : image(r) = q}, df.rows)

\* C6 witness: enforce_schema has returned from a dataset of two rows with
\* columns the schema lacks, a schema with a field the dataset lacks and
\* with fields of another type than the dataset's columns.
C6_Witness ==
    /\ pc = "enforce_schema_returned"
    /\ NumRows(locals.df) = 2
    /\ locals.df.cols = <<"id", "name", "amount", "extra">>
    /\ SchemaNames(locals.schema) = <<"amount", "id", "missing">>
    /\ locals.result.cols = <<"amount", "id">>
    /\ \E r \in DOMAIN locals.result.rows : IsNull(r[1])

\* The fill step of a pipeline has turned dataset d into dataset out as
\* the missing-column fill is specified: every unified field that d lacks
\* is a column of out, null on every row and of the catalog's type for
\* it, and the columns of d are unchanged.
FilledPerCatalog(d, out) ==
    /\ \A i \in DOMAIN UNIFIED_SCHEMA :
          UNIFIED_SCHEMA[i].name \notin Range(d.cols) =>
              /\ UNIFIED_SCHEMA[i].name \in Range(out.cols)
              /\ ColType(out, UNIFIED_SCHEMA[i].name) = UNIFIED_SCHEMA[i].type
              /\ \A r \in DOMAIN out.rows :
                    IsNull(Cell(out, r, UNIFIED_SCHEMA[i].name))
    /\ \A i \in DOMAIN d.cols :
          /\ d.cols[i] \in Range(out.cols)
          /\ ColType(out, d.cols[i]) = d.types[i]
    /\ {[i \in DOMAIN d.cols |-> Cell(out, r, d.cols[i])] : r \in DOMAIN out.rows}
          = DOMAIN d.rows

\* C7: the fill step of the output normalizer, taken on a dataset on which
\* the unified schema has been enforced, adds every unified field the
\* dataset lacks as a column that is null on every row and has the type
\* the catalog declares for the field, and leaves the other columns as
\* they are.
C7_FillTypedPerCatalog ==
    [][/\ pc = "material_enforced" =>
             FilledPerCatalog(locals.local_material, locals'.local_material)
       /\ pc = "order_enforced" =>
             FilledPerCatalog(locals.process_order, locals'.process_order)]_vars

\* C8: the final dataset of either pipeline has exactly the fields of
\* UNIFIED_SCHEMA as its columns, in catalog order.
C8_UnifiedColumns ==
    /\ pc = "material_done" =>
          locals.local_material.cols = SchemaNames(UNIFIED_SCHEMA)
    /\ pc = "order_done" =>
          locals.process_order.cols = SchemaNames(UNIFIED_SCHEMA)

\* The day a cell holding a yyyy-MM-dd string denotes.
DayOf(c) == ParseDate(c[1])[1]

\* C9: when post_prep_process_order has returned, on_time_flag of a row is
\* null if ZZGLTRP_ORIG or LTRMI is null, 1 if the day of ZZGLTRP_ORIG is
\* that of LTRMI or a later one, and 0 if it is an earlier one.
C9_OnTimeFlag ==
    pc = "order_post" =>
        \A r \in DOMAIN locals.process_order.rows :
            LET orig  == Cell(locals.process_order, r, "ZZGLTRP_ORIG")
                ltrmi == Cell(locals.process_order, r, "LTRMI")
                flag  == Cell(locals.process_order, r, "on_time_flag")
            IN  IF IsNull(orig) \/ IsNull(ltrmi) THEN flag = NULL
                ELSE IF DayOf(orig) >= DayOf(ltrmi) THEN flag = V(1)
                ELSE flag = V(0)

\* C9 witness: the post-processor has returned a row whose original finish
\* date, 2024-01-31, is the day before its actual finish date, 2024-02-01,
\* flagged 0.
C9_Witness ==
    /\ pc = "order_post"
    /\ \E r \in DOMAIN locals.process_order.rows :
          /\ Cell(locals.process_order, r, "ZZGLTRP_ORIG") = V("2024-01-31")
          /\ Cell(locals.process_order, r, "LTRMI") = V("2024-02-01")
          /\ Cell(locals.process_order, r, "on_time_flag") = V(0)

\* C10: when post_prep_process_order has returned, actual_on_time_deviation
\* of a row is the days from LTRMI to ZZGLTRP_ORIG (null when either is
\* null), and late_delivery_bucket is "On-Time" for a deviation of at most
\* 0, "Slightly Late" for 1..5, "Moderately Late" for 6..10, and "Severely
\* Late" for a deviation above 10 and for a null deviation.
C10_LateDeliveryBucket ==
    pc = "order_post" =>
        \A r \in DOMAIN locals.process_order.rows :
            LET orig   == Cell(locals.process_order, r, "ZZGLTRP_ORIG")
                ltrmi  == Cell(locals.process_order, r, "LTRMI")
                dev    == Cell(locals.process_order, r, "actual_on_time_deviation")
                bucket == Cell(locals.process_order, r, "late_delivery_bucket")
            IN  /\ dev = IF IsNull(orig) \/ IsNull(ltrmi) THEN NULL
                         ELSE V(DayOf(orig) - DayOf(ltrmi))
                /\ bucket =
                      CASE IsNull(dev) -> V("Severely Late")
                        [] ~IsNull(dev) /\ dev[1] <= 0 -> V("On-Time")
                        [] ~IsNull(dev) /\ dev[1] \in 1..5 -> V("Slightly Late")
                        [] ~IsNull(dev) /\ dev[1] \in 6..10 -> V("Moderately Late")
                        [] ~IsNull(dev) /\ dev[1] > 10 -> V("Severely Late")

\* C10 witness: the post-processor has returned a row whose deviation is 5
\* days, in the bucket "Slightly Late".
C10_Witness ==
    /\ pc = "order_post"
    /\ \E r \in DOMAIN locals.process_order.rows :
          /\ Cell(locals.process_order, r, "actual_on_time_deviation") = V(5)
          /\ Cell(locals.process_order, r, "late_delivery_bucket")
                = V("Slightly Late")

\* The end-to-end material scenario: two plant-material rows for material
\* "M1" at plants "P1" and "P2", one material master row for "M1" with the
\* global number "G1", one plant-branch row per plant, and no entity that
\* matches a plant-material row more than once.
EndToEndMaterialScenario ==
    /\ globals.MARC.rows =
          [r \in {<<S1, V("100"), V("M1"), V(w), NULL, V(1), V("0"), NULL>> :
                     w \in {"P1", "P2"}} |-> 1]
    /\ globals.MARA = MaterialBaseline.MARA
    /\ globals.T001W = MaterialBaseline.T001W
    /\ NumRows(globals.T001K) <= 1

\* The output of the material pipeline has exactly two rows, with the
\* primary_key_intra values "M1-P1" and "M1-P2", the given global_mtl_id
\* on both and no_of_duplicates 1 on both.
EndToEndMaterialOutput(global_mtl_id) ==
    LET out == locals.local_material
    IN  /\ NumRows(out) = 2
        /\ {Cell(out, r, "primary_key_intra") : r \in DOMAIN out.rows}
              = {V("M1-P1"), V("M1-P2")}
        /\ \A r \in DOMAIN out.rows :
              /\ Cell(out, r, "global_mtl_id") = V(global_mtl_id)
              /\ Cell(out, r, "no_of_duplicates") = V(1)

C12_GlobalMaterialId ==
    pc = "post_prep_local_material_returned" =>
        \A r \in DOMAIN locals.result.rows :
            Cell(locals.result, r, "global_mtl_id")
                = IF ~IsNull(Cell(locals.result, r, "MATNR"))
                      THEN Cell(locals.result, r, "MATNR")
                      ELSE Cell(locals.result, r, "global_material_number")

\* C12 witness: the function has returned a row with a material number and
\* a different global number, and a row without a material number that
\* takes the global number.
C12_Witness ==
    /\ pc = "post_prep_local_material_returned"
    /\ \E r \in DOMAIN locals.result.rows :
          /\ Cell(locals.result, r, "MATNR") = V("M1")
          /\ Cell(locals.result, r, "global_material_number") = V("G1")
          /\ Cell(locals.result, r, "global_mtl_id") = V("M1")
    /\ \E r \in DOMAIN locals.result.rows :
          /\ IsNull(Cell(locals.result, r, "MATNR"))
          /\ Cell(locals.result, r, "global_mtl_id") = V("G1")

\* C13: a call of integration_order that is given a value of another type
\* than DataFrame (here an int) for any of its dataset arguments sap_afko,
\* sap_afpo, sap_aufk, sap_mara raises TypeError and returns nothing.
C13_IntegratorValidatesDatasets ==
    (pc \in {"integration_order_raised", "integration_order_returned"}
        /\ \E a \in DOMAIN locals.args : locals.args[a] = "int")
        => (pc = "integration_order_raised" /\ locals.error = "TypeError")

\* C14: a run of process_local_material uses only the datasets of its own
\* data_dir: whenever a run has got past its preparers, its directory
\* held the file of every entity the pipeline reads (a run whose directory
\* lacks one, such as MARA, has aborted instead).
C14_RunUsesOwnDirectory ==
    pc \in {"material_prepared", "material_integrated", "material_post",
            "material_enforced", "material_done", "material_saved"}
        => {"MARC", "MARA", "MBEW", "T001W", "T001K", "T001"}
              \subseteq locals.data_dir

\* C15: a step that fails a run of process_local_material or of
\* process_order leaves output_dir as it was: no file has been created or
\* replaced in it and nothing of the run remains in it.
C15_FailedRunWritesNothing ==
    [][pc' \in {"material_failed", "order_failed"} => output_dir' = output_dir]_vars

\* C16: a run of process_order that saves its output where an earlier run
\* on the same input files has saved its own leaves the content of the
\* file as it was, whatever the days the two runs take place on.
C16_RunsIdempotent ==
    [][(pc = "order_done" /\ pc' = "order_saved"
            /\ "process_order.csv" \in DOMAIN output_dir.files)
        => output_dir'.files = output_dir.files]_vars

\* C17: the deduplication steps have one result whatever the order and the
\* partitioning Spark processes the rows in: the dataset that
\* prep_material_valuation has returned, and the one that
\* post_prep_local_material has returned, is the only dataset the call can
\* return on its input.
C17_DeduplicationDeterministic ==
    /\ pc = "prep_material_valuation_returned"
          => prep_material_valuation(locals.df) = {locals.processed}
    /\ pc = "post_prep_local_material_returned"
          => post_prep_local_material(locals.df) = {locals.result}

\* What C18 says read_file raises: the error of the first check that fails,
\* the checks being the path, the format, the existence of the path and
\* the options (None standing for no options), or "none".
ReadFileExpected(file_path, file_format, options) ==
    IF file_path.type # "str" \/ file_path.repr = ""
        THEN "ValueError: Invalid file path"
    ELSE IF file_format \notin {"csv", "CSV", "orc"}
        THEN "ValueError: Unsupported file format"
    ELSE IF file_path.repr # "sample.csv"
        THEN "FileNotFoundError"
    ELSE IF options.type \notin {"dict", "NoneType"}
        THEN "ValueError: Options must be a dictionary."
    ELSE "none"

\* C18: read_file raises the error of the first failing check among: the
\* path is empty or no string (ValueError, invalid file path), the format
\* is not a supported one whatever its case (ValueError, unsupported file
\* format), the path does not exist (FileNotFoundError), the options are
\* not a dictionary (ValueError, options must be a dictionary).
C18_ReadFileValidation ==
    (pc \in {"read_file_returned", "read_file_raised"}
        /\ locals.file_path.repr # " ")
        => locals.raised = ReadFileExpected(locals.file_path,
                                            locals.file_format, locals.options)

\* C19: read_multiple_data returns, for any content of the directory and
\* any order of its listing, a dictionary of which every key is the base
\* name of a file of the directory and every value the dataset read from
\* that same file; subdirectories give no key.
C19_ReadMultipleData ==
    pc \in {"read_multiple_data_returned", "read_multiple_data_raised"}
        => /\ pc = "read_multiple_data_returned"
           /\ \A key \in DOMAIN locals.result :
                 \E i \in DOMAIN locals.listing :
                     /\ locals.listing[i].isfile
                     /\ locals.listing[i].base = key
                     /\ locals.result[key]
                           = locals.listing[i].base \o locals.listing[i].ext

\* The rows of the input of prep_general_material_data that satisfy the
\* enabled filters.
KeptMaterialRows ==
    {r \in DOMAIN locals.df.rows :
        /\ locals.check_old_material_number_is_valid
              => \/ IsNull(Cell(locals.df, r, "BISMT"))
                 \/ /\ Cell(locals.df, r, "BISMT") # V("ARCHIVE")
                    /\ Cell(locals.df, r, "BISMT") # V("DUPLICATE")
                    /\ Cell(locals.df, r, "BISMT") # V("RENUMBERED")
        /\ locals.check_material_is_not_deleted
              => \/ IsNull(Cell(locals.df, r, "LVORM"))
                 \/ Cell(locals.df, r, "LVORM") = V("")}

\* The material number and the global material number of an input row (the
\* latter in the column the caller has named).
MaterialNumbers(r) ==
    <<Cell(locals.df, r, "MATNR"),
      Cell(locals.df, r, locals.col_mara_global_material_number)>>

\* C20: prep_general_material_data returns exactly the rows of its input
\* that satisfy the enabled filters (old material number null or none of
\* ARCHIVE, DUPLICATE, RENUMBERED; deletion flag null or empty), each as
\* often as the input has it, with the caller-named global material number
\* in the column global_material_number.
C20_GeneralMaterialFilters ==
    pc = "prep_general_material_data_returned" =>
        /\ NumRows(locals.result) = SumOver(KeptMaterialRows, locals.df.rows)
        /\ \A r \in KeptMaterialRows :
              SumOver({q \in DOMAIN locals.result.rows :
                          <<Cell(locals.result, q, "MATNR"),
                            Cell(locals.result, q, "global_material_number")>>
                             = MaterialNumbers(r)},
                      locals.result.rows) = locals.df.rows[r]
        /\ locals.col_mara_global_material_number
              \notin Range(locals.result.cols)

\* C20 witness: with both filters enabled and the global material number
\* in a column of another name, the function has kept a row whose deletion
\* flag is empty and whose old material number is no invalid one, and has
\* removed a row whose old material number is RENUMBERED.
C20_Witness ==
    /\ pc = "prep_general_material_data_returned"
    /\ locals.check_old_material_number_is_valid
    /\ locals.check_material_is_not_deleted
    /\ locals.col_mara_global_material_number = "GLOBAL_ID"
    /\ NumRows(locals.df) = 2
    /\ NumRows(locals.result) = 1
    /\ \E r \in DOMAIN locals.df.rows :
          Cell(locals.df, r, "BISMT") = V("RENUMBERED")
    /\ \E r \in KeptMaterialRows :
          /\ Cell(locals.df, r, "BISMT") = V("OLD1")
          /\ Cell(locals.df, r, "LVORM") = V("")

\* The first day of the month of day d.
FirstOfMonth(d) == d - (DateFields(d)[3] - 1)

\* C21: prep_order_header_data returns as many rows as it is given, and
\* every row of its input comes out with the start_date that is the first
\* day of the month of the current date when GSTRP is null, and the first
\* day of the month of GSTRP otherwise.
C21_StartDateFirstOfMonth ==
    pc = "prep_order_header_data_returned" =>
        /\ NumRows(locals.result) = NumRows(locals.df)
        /\ \A r \in DOMAIN locals.df.rows :
              SumOver({q \in DOMAIN locals.result.rows :
                          /\ Cell(locals.result, q, "AUFNR")
                                = Cell(locals.df, r, "AUFNR")
                          /\ Cell(locals.result, q, "start_date")
                                = V(FirstOfMonth(
                                      IF IsNull(Cell(locals.df, r, "GSTRP"))
                                          THEN locals.current_date
                                          ELSE Cell(locals.df, r, "GSTRP")[1]))},
                      locals.result.rows) = locals.df.rows[r]

\* C21 witness: on 2024-02-03 the function has returned a header without
\* GSTRP with the start date 2024-02-01, and a header whose GSTRP is
\* 2024-01-31 with the start date 2024-01-01.
C21_Witness ==
    /\ pc = "prep_order_header_data_returned"
    /\ locals.current_date = 33
    /\ \E q \in DOMAIN locals.result.rows :
          /\ Cell(locals.result, q, "AUFNR") = V("O0")
          /\ Cell(locals.result, q, "start_date") = V(31)
    /\ \E q \in DOMAIN locals.result.rows :
          /\ Cell(locals.result, q, "AUFNR") = V("O2")
          /\ Cell(locals.result, q, "start_date") = V(0)

\* The new names of a rename map.
MappedNames(mapping) == {mapping[i][2] : i \in DOMAIN mapping}

\* The unified fields of the material pipeline that its rename map does
\* not name.
UnmappedMaterialFields ==
    {"primary_key_intra", "primary_key_inter", "mtl_plant_emd",
     "global_mtl_id", "no_of_duplicates", "global_material_number"}

\* C22 (as amended): both pipelines apply their rename map in the same
\* way, keeping all fields and renaming the mapped ones: past the rename
\* step the material pipeline carries, besides the mapped fields, the
\* fields primary_key_intra, primary_key_inter, mtl_plant_emd,
\* global_mtl_id, no_of_duplicates and global_material_number, and the
\* order pipeline carries its mapped fields and fields outside its map
\* (such as primary_key_intra); the material output alone has the column
\* system_name, holding the caller's identifier on every row.
C22_RenameKeepsAllFields ==
    /\ pc = "material_enforced"
          => Range(locals.local_material.cols)
                \ MappedNames(LOCAL_MATERIAL_SCHEMA_WITH_RELAVENT_NAMES)
                   = UnmappedMaterialFields
    /\ pc = "order_enforced"
          => /\ MappedNames(PROCESS_ORDER_SCHEMA_WITH_RELAVENT_NAMES)
                   \subseteq Range(locals.process_order.cols)
             /\ "primary_key_intra" \in Range(locals.process_order.cols)
    /\ pc = "material_done"
          => \A r \in DOMAIN locals.local_material.rows :
                Cell(locals.local_material, r, "system_name")
                    = V(locals.system_name)
    /\ pc = "order_done"
          => "system_name" \notin Range(locals.process_order.cols)

\* C22 witness: the material pipeline is past its rename step with a row
\* that has a value in a field outside the rename map.
C22_Witness ==
    /\ pc = "material_enforced"
    /\ \E r \in DOMAIN locals.local_material.rows :
          /\ Cell(locals.local_material, r, "primary_key_intra") = V("M1-P1")
          /\ Cell(locals.local_material, r, "material_number") = V("M1")

\* C22 as stated: past the rename step the material pipeline carries only
\* the fields of its rename map, while the order pipeline keeps fields
\* outside its map; and the material output alone has the column
\* system_name, holding the caller's identifier on every row.
C22_RenameAsymmetric ==
    /\ pc = "material_enforced"
          => Range(locals.local_material.cols)
                \subseteq MappedNames(LOCAL_MATERIAL_SCHEMA_WITH_RELAVENT_NAMES)
    /\ pc = "order_enforced"
          => /\ MappedNames(PROCESS_ORDER_SCHEMA_WITH_RELAVENT_NAMES)
                   \subseteq Range(locals.process_order.cols)
             /\ "primary_key_intra" \in Range(locals.process_order.cols)
    /\ pc = "material_done"
          => \A r \in DOMAIN locals.local_material.rows :
                Cell(locals.local_material, r, "system_name")
                    = V(locals.system_name)
    /\ pc = "order_done"
          => "system_name" \notin Range(locals.process_order.cols)

\* The name a rename map gives to a column name: the new name of the pair
\* whose old name it is, or the name itself.
NewName(mapping, name) ==
    IF \E i \in DOMAIN mapping : mapping[i][1] = name
        THEN mapping[CHOOSE i \in DOMAIN mapping : mapping[i][1] = name][2]
        ELSE name

\* The dataset with all the renames of a map applied at once.
RenamedAtOnce(d, mapping) ==
    DataFrame([i \in DOMAIN d.cols |-> NewName(mapping, d.cols[i])],
              d.types, d.rows)

\* C23: rename_and_select on a dataset that has every column its map
\* names returns, with select = FALSE, the dataset with all renames applied
\* at once and nothing else changed, and with select = TRUE the columns of
\* that dataset that the map's new names name, in the order of the map.
C23_RenameAndSelect ==
    (pc \in {"rename_and_select_returned", "rename_and_select_raised"}
        /\ \A i \in DOMAIN locals.mapping :
               locals.mapping[i][1] \in Range(locals.df.cols))
        => /\ pc = "rename_and_select_returned"
           /\ ~locals.select
                 => locals.result = RenamedAtOnce(locals.df, locals.mapping)
           /\ locals.select
                 => locals.result
                      = Select(RenamedAtOnce(locals.df, locals.mapping),
                               [i \in DOMAIN locals.mapping |->
                                   locals.mapping[i][2]])

\* C24: after save_df_as_csv has returned, the directory (empty before the
\* call) holds exactly one file, whose name is file_name when file_name
\* ends in .csv and file_name with .csv appended otherwise, and no
\* temp_output.
C24_OneCsvFile ==
    pc = "save_df_as_csv_returned" =>
        /\ DOMAIN output_dir.files
              = {IF locals.file_name[Len(locals.file_name)] = "csv"
                     THEN JoinDots(locals.file_name)
                     ELSE JoinDots(locals.file_name) \o ".csv"}
        /\ ~output_dir.temp_output

\* C25: post_prep_process_order on a dataset without the column
\* ZZGLTRP_ORIG returns, and in its result the column is present and null
\* on every row, on_time_flag and actual_on_time_deviation are null and
\* late_delivery_bucket is "Severely Late".
C25_MissingOriginalFinishDate ==
    (pc \in {"post_prep_process_order_returned",
             "post_prep_process_order_raised"}
        /\ "ZZGLTRP_ORIG" \notin Range(locals.df.cols))
        => /\ pc = "post_prep_process_order_returned"
           /\ \A r \in DOMAIN locals.result.rows :
                 /\ IsNull(Cell(locals.result, r, "ZZGLTRP_ORIG"))
                 /\ IsNull(Cell(locals.result, r, "on_time_flag"))
                 /\ IsNull(Cell(locals.result, r, "actual_on_time_deviation"))
                 /\ Cell(locals.result, r, "late_delivery_bucket")
                       = V("Severely Late")

\* C26: in the output of post_prep_local_material two rows with different
\* (SOURCE_SYSTEM_ERP, MATNR, WERKS) never have the same primary_key_inter,
\* two such rows of one source system never have the same
\* primary_key_intra, and primary_key_inter begins with the source-system
\* identifier, whatever the field values, nulls and values containing the
\* separator included.
C26_DerivedKeysAreIdentities ==
    pc = "post_prep_local_material_returned" =>
        \A r1, r2 \in DOMAIN locals.result.rows :
            /\ Cell(locals.result, r1, "primary_key_inter")
                  \in {Cell(locals.result, r1, "SOURCE_SYSTEM_ERP"),
                       V(Cell(locals.result, r1, "SOURCE_SYSTEM_ERP")[1]
                           \o "-"
                           \o Cell(locals.result, r1,
                                   "primary_key_intra")[1])}
            /\ KeyOf(locals.result, r1, MaterialKey)
                  # KeyOf(locals.result, r2, MaterialKey)
                  => /\ Cell(locals.result, r1, "primary_key_inter")
                          # Cell(locals.result, r2, "primary_key_inter")
                     /\ Cell(locals.result, r1, "primary_key_intra")
                          # Cell(locals.result, r2, "primary_key_intra")

\* C27: when post_prep_process_order has returned, every row with
\* ZZGLTRP_ORIG and LTRMI both non-null has on_time_flag 1 if and only if
\* its late_delivery_bucket is "On-Time".
C27_FlagAgreesWithBucket ==
    pc = "order_post" =>
        \A r \in DOMAIN locals.process_order.rows :
            (/\ ~IsNull(Cell(locals.process_order, r, "ZZGLTRP_ORIG"))
             /\ ~IsNull(Cell(locals.process_order, r, "LTRMI")))
                => (Cell(locals.process_order, r, "on_time_flag") = V(1)
                        <=> Cell(locals.process_order, r,
                                 "late_delivery_bucket") = V("On-Time"))

\* C28: a run of process_order on a directory with the files AFKO, AFPO,
\* AUFK and MARA calls every preparer with arguments the preparer accepts:
\* the run never ends in a TypeError.
C28_PreparersAcceptArguments ==
    (pc = "order_failed"
        /\ {"AFKO", "AFPO", "AUFK", "MARA"} \subseteq DOMAIN globals)
        => locals.error # "TypeError"

\* The column names of d are pairwise distinct.
DistinctColumns(d) ==
    \A c1, c2 \in DOMAIN d.cols : d.cols[c1] = d.cols[c2] => c1 = c2

\* C29: the dataset integration_order has returned in a run of
\* process_order, and the one integrate_data has returned in a run of
\* process_local_material, has pairwise distinct column names: no column
\* such as MANDT occurs twice.
C29_IntegratedColumnsDistinct ==
    /\ pc = "order_integrated" => DistinctColumns(locals.integrated_df)
    /\ pc = "material_integrated" => DistinctColumns(locals.integrated_data)

\* C30: when prep_material_valuation has returned, its output has a row of
\* every (MANDT, MATNR, BWKEY) that has an input row with null LVORM and
\* null BWTAR: no client loses its valuation of a material.
C30_ValuationKeptPerClient ==
    pc = "prep_material_valuation_returned" =>
        \A r \in Eligible(locals.df) :
            \E o \in DOMAIN locals.processed.rows :
                KeyOf(locals.processed, o, <<"MANDT", "MATNR", "BWKEY">>)
                    = KeyOf(locals.df, r, <<"MANDT", "MATNR", "BWKEY">>)

=============================================================================
